---- MODULE Spec2Model ----
(***************************************************************************)
(* A model of vitess' StatefulConnection                                   *)
(* (go/vt/vttablet/tabletserver/stateful_connection.go) together with the  *)
(* part of the StatefulConnectionPool it calls into.  One StatefulConnection*)
(* is shared by the request handlers in Callers; every public method is one *)
(* action.  op/res/calls record the last method called, what it returned    *)
(* and the calls it made on its collaborators, in order.                    *)
(* The second part models the SELECT planner of vtgate                      *)
(* (go/vt/vtgate/planbuilder/select.go): gen4SelectStmtPlanner is one       *)
(* action on a statement, a vschema and the answers of the plan builder.    *)
(* The third part models the Binary vindex                                  *)
(* (go/vt/vtgate/vindexes/binary.go): Map and ReverseMap are one action     *)
(* each, on lists of values and of keyspace ids.                            *)
(* For the counters that all connections of one tablet share, a second      *)
(* StatefulConnection, peer, is tainted, unlocked, renewed and released next *)
(* to the first one.                                                         *)
(***************************************************************************)
EXTENDS Integers, Sequences, FiniteSets, TLC

VARIABLES
    hasPool,        \* sc.pool != nil
    dbConn,         \* sc.dbConn: Nil, or the pooled backend connection
    txProps,        \* sc.txProps: Nil, or the transaction's properties
    reservedProps,  \* sc.reservedProps: Nil, or the reserved properties
    tainted,        \* sc.tainted
    enforceTimeout, \* sc.enforceTimeout
    timeout,        \* sc.timeout
    expiryTime,     \* sc.expiryTime
    SkipUserMetrics,\* sc.env.Config().SkipUserMetrics
    now,            \* time.Now()
    registered,     \* the pool's active map holds sc.ConnID
    inUse,          \* the pool's entry for sc.ConnID is handed out
    owners,         \* callers the pool handed sc to, that have not returned it
    refs,           \* callers that hold a pointer to sc
    unregistered,   \* number of pool.unregister calls so far
    recycled,       \* number of dbConn.Recycle calls so far
    UserActiveReservedCount,
    UserReservedCount,
    stamped,        \* the reason name LogTransaction last stamped on the
                    \* transaction, "" when none
    op,             \* the last method called
    res,            \* what it returned
    calls,          \* the calls it made on the pool, the backend and the env,
                    \* and among them the write sc.dbConn = nil of a release
    query,          \* the planner's input: the statement the query text parses to
    stmt,           \* the planner's input: the statement, which planning may change
    vschema,        \* the planner's input: what the VSchema answers
    planResult,     \* what gen4SelectStmtPlanner returned, Nil before it ran
    planCalls,      \* the calls the planner made on the vschema, the parser,
                    \* the analyzer and the plan builder, in order
    ids,            \* the values Binary.Map is called with
    destinations,   \* what Binary.Map returned, Nil before it ran
    ksids,          \* the keyspace ids Binary.ReverseMap is called with
    reverseIds,     \* what Binary.ReverseMap returned, Nil before it ran
    peer            \* a second StatefulConnection of the same pool and env:
                    \* its dbConn, reservedProps, tainted and registration

vars == <<hasPool, dbConn, txProps, reservedProps, tainted, enforceTimeout,
          timeout, expiryTime, SkipUserMetrics, now, registered, inUse, owners,
          refs, unregistered, recycled, UserActiveReservedCount,
          UserReservedCount, stamped, op, res, calls,
          query, stmt, vschema, planResult, planCalls,
          ids, destinations, ksids, reverseIds, peer>>

\* what never changes after construction
config == <<hasPool, enforceTimeout, SkipUserMetrics>>
\* what a release writes (besides calls)
released == <<dbConn, registered, inUse, unregistered, recycled,
              UserActiveReservedCount, UserReservedCount>>
\* the transaction's state
txState == <<txProps, stamped>>
\* the reserved state
reservedState == <<reservedProps, tainted>>
\* the timeout's state
timeState == <<timeout, expiryTime>>
\* the planner's state
planner == <<query, stmt, vschema, planResult, planCalls>>
\* the Binary vindex's state
vindex == <<ids, destinations, ksids, reverseIds>>
\* everything but the record of the last call
scState == <<config, released, txState, reservedState, timeState, now, owners, refs>>

-----------------------------------------------------------------------------
\* Bounds of the model
MaxTime == 2        \* the clock runs 0..MaxTime

\* a nil pointer
Nil == [nil |-> TRUE]

\* the request handlers and the caller ids their contexts carry
Callers == {"h1", "h2"}
ImmediateCallerIDFromContext(c) == "vtgate"
EffectiveCallerIDFromContext(c) == IF c = "h1" THEN "alice" ELSE ""

userLabelDisabled == "UserLabelDisabled"
Labels == {"alice", "vtgate", userLabelDisabled}

\* tx.ReleaseReason, with its String() and Name()
Reasons == {"TxCommit", "TxKill"}
ReasonString(r) == IF r = "TxCommit" THEN "transaction committed" ELSE "kill"
ReasonName(r) == IF r = "TxCommit" THEN "commit" ELSE "kill"
\* reasons given as text to Releasef / ReleaseString
ReasonTexts == {"kill all"}

Durations == {0, 1}

\* what the backend answers: a result, a connection error, another error
Outcomes == {"ok", "ConnErr", "SQLErr"}

\* callerid.GetPrincipal / callerid.GetUsername
GetPrincipal(ef) == ef
GetUsername(im) == im

\* vterrors.New / Errorf / Wrap, and a Go runtime panic
OK == [code |-> "OK", msg |-> "", arg |-> ""]
Err(code, msg) == [code |-> code, msg |-> msg, arg |-> ""]
Errf(code, msg, arg) == [code |-> code, msg |-> msg, arg |-> arg]
Panic == [code |-> "PANIC", msg |-> "nil pointer dereference", arg |-> ""]

Call(name, arg) == <<name, arg, "">>
Call2(name, arg1, arg2) == <<name, arg1, arg2>>

-----------------------------------------------------------------------------
\* IsClosed
IsClosed == dbConn = Nil \/ dbConn.closed

\* IsInTransaction
IsInTransaction == txProps # Nil

\* IsTainted
IsTainted == tainted

\* ElapsedTimeout that does not look at enforceTimeout
ElapsedTimeoutUnenforced ==
    IF timeout <= 0 THEN FALSE
    ELSE expiryTime < now

\* ElapsedTimeout
ElapsedTimeout ==
    IF ~enforceTimeout THEN FALSE
    ELSE IF timeout <= 0 THEN FALSE
    ELSE expiryTime < now

\* getUsername
getUsername ==
    IF GetPrincipal(reservedProps.EffectiveCaller) # ""
    THEN GetPrincipal(reservedProps.EffectiveCaller)
    ELSE GetUsername(reservedProps.ImmediateCaller)

\* a caller may use sc when the pool handed it to him, when sc has no pool,
\* or to find out that it was released
CanUse(c) == c \in refs /\ (c \in owners \/ ~hasPool \/ dbConn = Nil)

\* the second connection after construction
NewPeer ==
    [dbConn |-> [closed |-> FALSE], reservedProps |-> Nil, tainted |-> FALSE,
     registered |-> hasPool]

NewStatefulConnection ==
    /\ hasPool \in BOOLEAN
    /\ dbConn = [closed |-> FALSE]
    /\ txProps = Nil
    /\ reservedProps = Nil
    /\ tainted = FALSE
    /\ enforceTimeout \in BOOLEAN
    /\ timeout = 0
    /\ expiryTime = 0
    /\ SkipUserMetrics \in BOOLEAN
    /\ now = 0
    /\ registered = hasPool
    /\ inUse = FALSE
    /\ owners = {}
    /\ refs = IF hasPool THEN {} ELSE {"h1"}
    /\ unregistered = 0
    /\ recycled = 0
    /\ UserActiveReservedCount = [l \in Labels |-> 0]
    /\ UserReservedCount = [l \in Labels |-> 0]
    /\ stamped = ""
    /\ op = "new"
    /\ res = OK
    /\ calls = <<>>

\* a new connection, a planner that plans nothing and a vindex that maps
\* nothing
Init ==
    /\ NewStatefulConnection
    /\ query = Nil
    /\ stmt = Nil
    /\ vschema = Nil
    /\ planResult = Nil
    /\ planCalls = <<>>
    /\ ids = <<>>
    /\ destinations = Nil
    /\ ksids = Nil
    /\ reverseIds = Nil
    /\ peer = NewPeer

-----------------------------------------------------------------------------
\* StatefulConnectionPool.unregister: the pool forgets the connection
unregister(reason) ==
    /\ registered' = FALSE
    /\ inUse' = FALSE
    /\ unregistered' = unregistered + 1

\* logReservedConn that takes the label from the immediate caller alone
logReservedConnImmediateCaller(reason) ==
    IF reservedProps = Nil
    THEN UNCHANGED <<UserActiveReservedCount, UserReservedCount>>
    ELSE IF SkipUserMetrics
    THEN /\ UserActiveReservedCount' =
                [UserActiveReservedCount EXCEPT ![userLabelDisabled] = @ - 1]
         /\ UNCHANGED UserReservedCount
    ELSE /\ UserActiveReservedCount' =
                [UserActiveReservedCount EXCEPT
                    ![GetUsername(reservedProps.ImmediateCaller)] = @ - 1]
         /\ UserReservedCount' =
                [UserReservedCount EXCEPT
                    ![GetUsername(reservedProps.ImmediateCaller)] = @ + 1]

\* logReservedConn: the stats of a reserved connection, at its release
logReservedConn(reason) ==
    IF reservedProps = Nil
    THEN UNCHANGED <<UserActiveReservedCount, UserReservedCount>>
    ELSE IF SkipUserMetrics
    THEN /\ UserActiveReservedCount' =
                [UserActiveReservedCount EXCEPT ![userLabelDisabled] = @ - 1]
         /\ UNCHANGED UserReservedCount
    ELSE /\ UserActiveReservedCount' =
                [UserActiveReservedCount EXCEPT ![getUsername] = @ - 1]
         /\ UserReservedCount' = [UserReservedCount EXCEPT ![getUsername] = @ + 1]

\* ReleaseString with its nil check after the call of unregister
ReleaseStringLateNilCheck(reason) ==
    IF dbConn = Nil
    THEN /\ IF hasPool THEN unregister(reason)
                       ELSE UNCHANGED <<registered, inUse, unregistered>>
         /\ calls' = IF hasPool THEN <<Call("unregister", reason)>> ELSE <<>>
         /\ UNCHANGED <<dbConn, recycled, UserActiveReservedCount, UserReservedCount>>
    ELSE /\ IF hasPool THEN unregister(reason)
                       ELSE UNCHANGED <<registered, inUse, unregistered>>
         /\ recycled' = recycled + 1
         /\ dbConn' = Nil
         /\ logReservedConn(reason)
         /\ calls' = (IF hasPool THEN <<Call("unregister", reason)>> ELSE <<>>)
                     \o <<Call("Recycle", "")>>

\* ReleaseString that recycles the backend without telling the pool
ReleaseStringNoUnregister(reason) ==
    IF dbConn = Nil
    THEN /\ UNCHANGED released
         /\ calls' = <<>>
    ELSE /\ recycled' = recycled + 1
         /\ dbConn' = Nil
         /\ logReservedConn(reason)
         /\ calls' = <<Call("Recycle", "")>>
         /\ UNCHANGED <<registered, inUse, unregistered>>

\* ReleaseString that recycles the backend and logs the stats before it
\* tells the pool
ReleaseStringUnregistersLast(reason) ==
    IF dbConn = Nil
    THEN /\ UNCHANGED released
         /\ calls' = <<>>
    ELSE /\ IF hasPool THEN unregister(reason)
                       ELSE UNCHANGED <<registered, inUse, unregistered>>
         /\ recycled' = recycled + 1
         /\ dbConn' = Nil
         /\ logReservedConn(reason)
         /\ calls' = <<Call("Recycle", ""), Call("dbConn = nil", "")>>
                     \o (IF reservedProps # Nil
                         THEN <<Call("Stats.Record", reason)>> ELSE <<>>)
                     \o (IF hasPool THEN <<Call("unregister", reason)>> ELSE <<>>)

\* ReleaseString: Release and Releasef end here, and unlock on a closed backend
ReleaseString(reason) ==
    IF dbConn = Nil
    THEN /\ UNCHANGED released
         /\ calls' = <<>>
    ELSE /\ IF hasPool THEN unregister(reason)
                       ELSE UNCHANGED <<registered, inUse, unregistered>>
         /\ recycled' = recycled + 1
         /\ dbConn' = Nil
         /\ logReservedConn(reason)
         /\ calls' = (IF hasPool THEN <<Call("unregister", reason)>> ELSE <<>>)
                     \o <<Call("Recycle", ""), Call("dbConn = nil", "")>>
                     \o (IF reservedProps # Nil
                         THEN <<Call("Stats.Record", reason)>> ELSE <<>>)

\* resetExpiryTime, with sc.timeout = d
resetExpiryTime(d) == now + d

\* StatefulConnectionPool.markAsNotInUse: the pool parks the connection, and
\* refreshes its time when updateTime is set
markAsNotInUse(updateTime) ==
    /\ inUse' = FALSE
    /\ expiryTime' = IF updateTime THEN resetExpiryTime(timeout) ELSE expiryTime
    /\ calls' = <<Call("markAsNotInUse", IF updateTime THEN "true" ELSE "false")>>
    /\ UNCHANGED <<dbConn, registered, unregistered, recycled,
                   UserActiveReservedCount, UserReservedCount>>

\* unlock without the check for a released connection
unlockNoNilCheck(updateTime) ==
    IF dbConn # Nil /\ dbConn.closed
    THEN ReleaseString("unlocked closed connection") /\ UNCHANGED expiryTime
    ELSE IF hasPool
    THEN markAsNotInUse(updateTime)
    ELSE /\ UNCHANGED <<released, expiryTime>>
         /\ calls' = <<>>

\* unlock that parks the connection without looking at the backend
unlockParksClosed(updateTime) ==
    IF dbConn = Nil
    THEN /\ UNCHANGED <<released, expiryTime>>
         /\ calls' = <<>>
    ELSE IF hasPool
    THEN markAsNotInUse(updateTime)
    ELSE /\ UNCHANGED <<released, expiryTime>>
         /\ calls' = <<>>

\* unlock
unlock(updateTime) ==
    IF dbConn = Nil
    THEN /\ UNCHANGED <<released, expiryTime>>
         /\ calls' = <<>>
    ELSE IF dbConn.closed
    THEN ReleaseString("unlocked closed connection") /\ UNCHANGED expiryTime
    ELSE IF hasPool
    THEN markAsNotInUse(updateTime)
    ELSE \* sc.pool is nil: the call on it panics
         /\ UNCHANGED <<released, expiryTime>>
         /\ calls' = <<>>

\* what Unlock and UnlockUpdateTime return: nothing, unless sc.pool is nil
unlockResult ==
    IF dbConn # Nil /\ ~dbConn.closed /\ ~hasPool THEN Panic ELSE OK

-----------------------------------------------------------------------------
\* the pool hands the parked connection to a caller
Get(c) ==
    /\ hasPool /\ registered /\ ~inUse
    /\ inUse' = TRUE
    /\ owners' = owners \cup {c}
    /\ refs' = refs \cup {c}
    /\ op' = "Get" /\ res' = OK /\ calls' = <<>>
    /\ UNCHANGED <<planner, vindex, peer, config, dbConn, registered, unregistered, recycled,
                   UserActiveReservedCount, UserReservedCount, txState,
                   reservedState, timeState, now>>

\* Unlock that asks for the refresh of the time in a transaction too
UnlockAlwaysUpdates(c) ==
    /\ c \in refs
    /\ unlock(TRUE)
    /\ owners' = owners \ {c}
    /\ op' = "Unlock" /\ res' = unlockResult
    /\ UNCHANGED <<planner, vindex, peer, config, txState, reservedState, timeout, now, refs>>

\* Unlock
Unlock(c) ==
    /\ c \in refs
    /\ unlock(~IsInTransaction)
    /\ owners' = owners \ {c}
    /\ op' = "Unlock" /\ res' = unlockResult
    /\ UNCHANGED <<planner, vindex, peer, config, txState, reservedState, timeout, now, refs>>

\* UnlockUpdateTime
UnlockUpdateTime(c) ==
    /\ c \in refs
    /\ unlock(TRUE)
    /\ owners' = owners \ {c}
    /\ op' = "UnlockUpdateTime" /\ res' = unlockResult
    /\ UNCHANGED <<planner, vindex, peer, config, txState, reservedState, timeout, now, refs>>

\* Release that ends the transaction and the reservation as well
ReleaseCleansState(c, reason) ==
    /\ CanUse(c)
    /\ ReleaseString(ReasonString(reason))
    /\ owners' = owners \ {c}
    /\ op' = "Release" /\ res' = OK
    /\ txProps' = Nil
    /\ tainted' = FALSE
    /\ UNCHANGED <<planner, vindex, peer, config, stamped, reservedProps, timeState, now, refs>>

\* Release
Release(c, reason) ==
    /\ CanUse(c)
    /\ ReleaseString(ReasonString(reason))
    /\ owners' = owners \ {c}
    /\ op' = "Release" /\ res' = OK
    /\ UNCHANGED <<planner, vindex, peer, config, txState, reservedState, timeState, now, refs>>

\* Releasef
Releasef(c, text) ==
    /\ CanUse(c)
    /\ ReleaseString(text)
    /\ owners' = owners \ {c}
    /\ op' = "Releasef" /\ res' = OK
    /\ UNCHANGED <<planner, vindex, peer, config, txState, reservedState, timeState, now, refs>>

\* ReleaseString, called directly
ReleaseStringCall(c, text) ==
    /\ CanUse(c)
    /\ ReleaseString(text)
    /\ owners' = owners \ {c}
    /\ op' = "ReleaseString" /\ res' = OK
    /\ UNCHANGED <<planner, vindex, peer, config, txState, reservedState, timeState, now, refs>>

\* the transaction engine begins a transaction on the connection it holds
Begin(c) ==
    /\ CanUse(c) /\ ~IsClosed /\ txProps = Nil
    /\ txProps' = [EffectiveCaller |-> EffectiveCallerIDFromContext(c),
                   ImmediateCaller |-> ImmediateCallerIDFromContext(c),
                   Conclusion |-> ""]
    /\ stamped' = ""
    /\ op' = "Begin" /\ res' = OK /\ calls' = <<>>
    /\ UNCHANGED <<planner, vindex, peer, config, released, reservedState, timeState, now, owners, refs>>

\* Exec, on a closed connection, forgetting the transaction
ExecClosedErrorNoTx == Err("ABORTED", "connection was aborted")

\* Exec, on a closed connection: the error it returns
ExecClosedError ==
    IF IsInTransaction
    THEN Errf("ABORTED", "transaction was aborted: %v", txProps.Conclusion)
    ELSE Err("ABORTED", "connection was aborted")

\* Exec that asks for the MySQL check without looking at the context
ExecAlwaysChecks(ctxDone, outcome) ==
    /\ \E c \in Callers : CanUse(c)
    /\ IF IsClosed
       THEN /\ res' = ExecClosedError
            /\ calls' = <<>>
       ELSE /\ res' = IF outcome = "ok" THEN OK ELSE Err(outcome, "")
            /\ calls' = <<Call("ExecOnce", "")>> \o
                        (IF outcome = "ConnErr"
                         THEN <<Call("ctx.Done", IF ctxDone THEN "true" ELSE "false"),
                                Call("CheckMySQL", "")>>
                         ELSE <<>>)
    /\ op' = "Exec"
    /\ UNCHANGED <<planner, vindex, peer, scState>>

\* Exec; the backend's ExecOnce answers with outcome, and ctxDone tells
\* whether ctx.Done() is ready when Exec looks at it after a connection error
Exec(ctxDone, outcome) ==
    /\ \E c \in Callers : CanUse(c)
    /\ IF IsClosed
       THEN /\ res' = ExecClosedError
            /\ calls' = <<>>
       ELSE /\ res' = IF outcome = "ok" THEN OK ELSE Err(outcome, "")
            /\ calls' = <<Call("ExecOnce", "")>> \o
                        (IF outcome = "ConnErr"
                         THEN <<Call("ctx.Done", IF ctxDone THEN "true" ELSE "false")>>
                              \o (IF ~ctxDone
                                  THEN <<Call("CheckMySQL", "")>> ELSE <<>>)
                         ELSE <<>>)
    /\ op' = "Exec"
    /\ UNCHANGED <<planner, vindex, peer, scState>>

\* execWithRetry
execWithRetry(outcome) ==
    /\ \E c \in Callers : CanUse(c)
    /\ IF IsClosed
       THEN /\ res' = Err("CANCELED", "connection is closed")
            /\ calls' = <<>>
       ELSE /\ res' = IF outcome = "ok" THEN OK ELSE Err(outcome, "")
            /\ calls' = <<Call("Exec", "")>>
    /\ op' = "execWithRetry"
    /\ UNCHANGED <<planner, vindex, peer, scState>>

\* FetchNext that checks sc.dbConn == nil in place of IsClosed()
FetchNextNilCheck(outcome) ==
    /\ \E c \in Callers : CanUse(c)
    /\ IF dbConn = Nil
       THEN /\ res' = Err("CANCELED", "connection is closed")
            /\ calls' = <<>>
       ELSE /\ res' = IF outcome = "ok" THEN OK ELSE Err(outcome, "")
            /\ calls' = <<Call("FetchNext", "")>>
    /\ op' = "FetchNext"
    /\ UNCHANGED <<planner, vindex, peer, scState>>

\* FetchNext
FetchNext(outcome) ==
    /\ \E c \in Callers : CanUse(c)
    /\ IF IsClosed
       THEN /\ res' = Err("CANCELED", "connection is closed")
            /\ calls' = <<>>
       ELSE /\ res' = IF outcome = "ok" THEN OK ELSE Err(outcome, "")
            /\ calls' = <<Call("FetchNext", "")>>
    /\ op' = "FetchNext"
    /\ UNCHANGED <<planner, vindex, peer, scState>>

\* Close
Close(c) ==
    /\ CanUse(c)
    /\ IF dbConn # Nil
       THEN /\ dbConn' = [dbConn EXCEPT !.closed = TRUE]
            /\ calls' = <<Call("Close", "")>>
       ELSE /\ UNCHANGED dbConn
            /\ calls' = <<>>
    /\ op' = "Close" /\ res' = OK
    /\ UNCHANGED <<planner, vindex, peer, config, registered, inUse, unregistered, recycled,
                   UserActiveReservedCount, UserReservedCount, txState,
                   reservedState, timeState, now, owners, refs>>

\* StatefulConnectionPool.renewConn succeeds only for a connection the pool
\* holds, when the pool can open a new backend connection (ok)
renewConnOK(ok) == ok /\ registered /\ dbConn # Nil

\* StatefulConnectionPool.renewConn: sc gets a fresh backend connection
renewConn(ok) ==
    IF renewConnOK(ok)
    THEN [closed |-> FALSE]
    ELSE dbConn

\* Renew that returns the error of renewConn without closing the backend
RenewNoClose(c, ok) ==
    /\ CanUse(c) /\ hasPool
    /\ IF renewConnOK(ok)
       THEN /\ dbConn' = renewConn(ok)
            /\ res' = OK
       ELSE /\ res' = Err("RenewErr", "connection renew failed")
            /\ UNCHANGED dbConn
    /\ calls' = <<Call("renewConn", "")>>
    /\ op' = "Renew"
    /\ UNCHANGED <<planner, vindex, peer, config, registered, inUse, unregistered, recycled,
                   UserActiveReservedCount, UserReservedCount, txState,
                   reservedState, timeState, now, owners, refs>>

\* Renew, of a connection that has a pool
Renew(c, ok) ==
    /\ CanUse(c) /\ hasPool
    /\ IF renewConnOK(ok)
       THEN /\ dbConn' = renewConn(ok)
            /\ res' = OK
            /\ calls' = <<Call("renewConn", "")>>
       ELSE /\ res' = Err("RenewErr", "connection renew failed")
            /\ IF dbConn # Nil
               THEN /\ dbConn' = [dbConn EXCEPT !.closed = TRUE]
                    /\ calls' = <<Call("renewConn", ""), Call("Close", "")>>
               ELSE /\ UNCHANGED dbConn
                    /\ calls' = <<Call("renewConn", "")>>
    /\ op' = "Renew"
    /\ UNCHANGED <<planner, vindex, peer, config, registered, inUse, unregistered, recycled,
                   UserActiveReservedCount, UserReservedCount, txState,
                   reservedState, timeState, now, owners, refs>>

\* Current, ID and IsUnixSocket read sc.dbConn.Conn without a nil check
Getter(name) ==
    /\ \E c \in Callers : CanUse(c)
    /\ IF dbConn = Nil
       THEN res' = Panic /\ calls' = <<>>
       ELSE res' = OK /\ calls' = <<Call(name, "")>>
    /\ op' = name
    /\ UNCHANGED <<planner, vindex, peer, scState>>

\* Current
Current == Getter("Current")

\* ID
ID == Getter("ID")

\* IsUnixSocket
IsUnixSocket == Getter("IsUnixSocket")

\* Kill: the backend kills the running query and closes the connection
Kill(c) ==
    /\ CanUse(c)
    /\ IF dbConn = Nil
       THEN res' = Panic /\ calls' = <<>> /\ UNCHANGED dbConn
       ELSE /\ res' = OK
            /\ calls' = <<Call("Kill", "")>>
            /\ dbConn' = [dbConn EXCEPT !.closed = TRUE]
    /\ op' = "Kill"
    /\ UNCHANGED <<planner, vindex, peer, config, registered, inUse, unregistered, recycled,
                   UserActiveReservedCount, UserReservedCount, txState,
                   reservedState, timeState, now, owners, refs>>

\* ApplySetting; same: the backend's current setting is the one asked for
ApplySetting(same, outcome) ==
    /\ \E c \in Callers : CanUse(c)
    /\ IF dbConn = Nil
       THEN res' = Panic /\ calls' = <<>>
       ELSE IF same
       THEN res' = [OK EXCEPT !.arg = "false"] /\ calls' = <<Call("Setting", "")>>
       ELSE /\ calls' = <<Call("Setting", ""), Call("ApplySetting", "")>>
            /\ res' = IF outcome = "ok" THEN [OK EXCEPT !.arg = "true"]
                      ELSE Errf(outcome, "", "true")
    /\ op' = "ApplySetting"
    /\ UNCHANGED <<planner, vindex, peer, scState>>

\* Taint: the Properties it records
NewReservedProps(c) ==
    [EffectiveCaller |-> EffectiveCallerIDFromContext(c),
     ImmediateCaller |-> ImmediateCallerIDFromContext(c),
     StartTime |-> now]

\* Taint without the check for a reserved connection
TaintNoTaintedCheck(c) ==
    /\ CanUse(c)
    /\ IF dbConn = Nil
       THEN /\ res' = Err("FAILED_PRECONDITION", "connection is closed")
            /\ calls' = <<>>
            /\ UNCHANGED <<reservedState, UserActiveReservedCount>>
       ELSE /\ tainted' = TRUE
            /\ reservedProps' = NewReservedProps(c)
            /\ calls' = <<Call("dbConn.Taint", "")>>
            /\ UserActiveReservedCount' =
                 [UserActiveReservedCount EXCEPT
                    ![IF SkipUserMetrics THEN userLabelDisabled
                      ELSE getUsername'] = @ + 1]
            /\ res' = OK
    /\ op' = "Taint"
    /\ UNCHANGED <<planner, vindex, peer, config, dbConn, registered, inUse, unregistered, recycled,
                   UserReservedCount, txState, timeState, now, owners, refs>>

\* Taint that sets sc.tainted before it checks sc.dbConn
TaintFlagFirst(c) ==
    /\ CanUse(c)
    /\ IF dbConn = Nil
       THEN /\ res' = Err("FAILED_PRECONDITION", "connection is closed")
            /\ calls' = <<>>
            /\ tainted' = TRUE
            /\ UNCHANGED <<reservedProps, UserActiveReservedCount>>
       ELSE IF tainted
       THEN /\ res' = Err("FAILED_PRECONDITION", "connection is already reserved")
            /\ calls' = <<>>
            /\ UNCHANGED <<reservedState, UserActiveReservedCount>>
       ELSE /\ tainted' = TRUE
            /\ reservedProps' = NewReservedProps(c)
            /\ calls' = <<Call("dbConn.Taint", "")>>
            /\ UserActiveReservedCount' =
                 [UserActiveReservedCount EXCEPT
                    ![IF SkipUserMetrics THEN userLabelDisabled
                      ELSE getUsername'] = @ + 1]
            /\ res' = OK
    /\ op' = "Taint"
    /\ UNCHANGED <<planner, vindex, peer, config, dbConn, registered, inUse, unregistered, recycled,
                   UserReservedCount, txState, timeState, now, owners, refs>>

\* Taint
Taint(c) ==
    /\ CanUse(c)
    /\ IF dbConn = Nil
       THEN /\ res' = Err("FAILED_PRECONDITION", "connection is closed")
            /\ calls' = <<>>
            /\ UNCHANGED <<reservedState, UserActiveReservedCount>>
       ELSE IF tainted
       THEN /\ res' = Err("FAILED_PRECONDITION", "connection is already reserved")
            /\ calls' = <<>>
            /\ UNCHANGED <<reservedState, UserActiveReservedCount>>
       ELSE /\ tainted' = TRUE
            /\ reservedProps' = NewReservedProps(c)
            /\ calls' = <<Call("dbConn.Taint", "")>>
            /\ UserActiveReservedCount' =
                 [UserActiveReservedCount EXCEPT
                    ![IF SkipUserMetrics THEN userLabelDisabled
                      ELSE getUsername'] = @ + 1]
            /\ res' = OK
    /\ op' = "Taint"
    /\ UNCHANGED <<planner, vindex, peer, config, dbConn, registered, inUse, unregistered, recycled,
                   UserReservedCount, txState, timeState, now, owners, refs>>

\* LogTransaction
LogTransaction(c, reason) ==
    /\ CanUse(c)
    /\ IF txProps = Nil
       THEN /\ calls' = <<>>
            /\ UNCHANGED txState
       ELSE /\ txProps' = [txProps EXCEPT !.Conclusion = ReasonName(reason)]
            /\ stamped' = ReasonName(reason)
            /\ LET principal == GetPrincipal(txProps.EffectiveCaller)
                   username == IF principal = ""
                               THEN GetUsername(txProps.ImmediateCaller)
                               ELSE principal
               IN  calls' = <<Call("Stats.Add", ReasonName(reason))>>
                      \o (IF ~SkipUserMetrics
                          THEN <<Call2("UserTransactionCount.Add",
                                       username, ReasonName(reason)),
                                 Call2("UserTransactionTimesNs.Add",
                                       username, ReasonName(reason))>>
                          ELSE <<>>)
                      \o <<Call("TxLogger.Send", "")>>
    /\ op' = "LogTransaction" /\ res' = OK
    /\ UNCHANGED <<planner, vindex, peer, config, released, reservedState, timeState, now, owners, refs>>

\* CleanTxState
CleanTxState(c) ==
    /\ CanUse(c)
    /\ txProps' = Nil
    /\ stamped' = ""
    /\ op' = "CleanTxState" /\ res' = OK /\ calls' = <<>>
    /\ UNCHANGED <<planner, vindex, peer, config, released, reservedState, timeState, now, owners, refs>>

\* SetTimeout
SetTimeout(c, d) ==
    /\ CanUse(c)
    /\ timeout' = d
    /\ expiryTime' = resetExpiryTime(d)
    /\ op' = "SetTimeout" /\ res' = OK /\ calls' = <<>>
    /\ UNCHANGED <<planner, vindex, peer, config, released, txState, reservedState, now, owners, refs>>

\* the pool's sweeper asks ElapsedTimeout
CheckElapsedTimeout ==
    /\ op' = "ElapsedTimeout"
    /\ res' = [OK EXCEPT !.arg = IF ElapsedTimeout THEN "true" ELSE "false"]
    /\ calls' = <<>>
    /\ UNCHANGED <<planner, vindex, peer, scState>>

\* time passes
Tick ==
    /\ now < MaxTime
    /\ now' = now + 1
    /\ op' = "Tick" /\ res' = OK /\ calls' = <<>>
    /\ UNCHANGED <<planner, vindex, peer, config, released, txState, reservedState, timeState, owners, refs>>

\* MySQL closes the backend connection
BackendClose ==
    /\ dbConn # Nil /\ ~dbConn.closed
    /\ dbConn' = [dbConn EXCEPT !.closed = TRUE]
    /\ op' = "BackendClose" /\ res' = OK /\ calls' = <<>>
    /\ UNCHANGED <<planner, vindex, peer, config, registered, inUse, unregistered, recycled,
                   UserActiveReservedCount, UserReservedCount, txState,
                   reservedState, timeState, now, owners, refs>>

\* every method of the connection, the pool's handout and the backend's
\* closing, at one instant of the clock
Next ==
    \/ \E c \in Callers : Get(c)
    \/ \E c \in Callers : Unlock(c)
    \/ \E c \in Callers : UnlockUpdateTime(c)
    \/ \E c \in Callers, r \in Reasons : Release(c, r)
    \/ \E c \in Callers, t \in ReasonTexts : Releasef(c, t)
    \/ \E c \in Callers, t \in ReasonTexts : ReleaseStringCall(c, t)
    \/ \E c \in Callers : Begin(c)
    \/ \E d \in BOOLEAN, o \in Outcomes : Exec(d, o)
    \/ \E o \in {"ok", "SQLErr"} : execWithRetry(o)
    \/ \E o \in {"ok", "SQLErr"} : FetchNext(o)
    \/ \E c \in Callers : Close(c)
    \/ \E c \in Callers, ok \in BOOLEAN : Renew(c, ok)
    \/ Current
    \/ ID
    \/ IsUnixSocket
    \/ \E c \in Callers : Kill(c)
    \/ \E same \in BOOLEAN, o \in {"ok", "SQLErr"} : ApplySetting(same, o)
    \/ \E c \in Callers : Taint(c)
    \/ \E c \in Callers, r \in Reasons : LogTransaction(c, r)
    \/ \E c \in Callers : CleanTxState(c)
    \/ \E c \in Callers, d \in Durations : SetTimeout(c, d)
    \/ CheckElapsedTimeout
    \/ BackendClose

Spec == Init /\ [][Next]_vars

\* the methods that change the connection, under a running clock
NextClock ==
    \/ Tick
    \/ \E c \in Callers : Get(c)
    \/ \E c \in Callers : Unlock(c)
    \/ \E c \in Callers : UnlockUpdateTime(c)
    \/ \E c \in Callers, r \in Reasons : Release(c, r)
    \/ \E c \in Callers : Begin(c)
    \/ \E c \in Callers : Close(c)
    \/ \E c \in Callers, ok \in BOOLEAN : Renew(c, ok)
    \/ \E c \in Callers : Taint(c)
    \/ \E c \in Callers : CleanTxState(c)
    \/ \E c \in Callers, d \in Durations : SetTimeout(c, d)
    \/ CheckElapsedTimeout
    \/ BackendClose

SpecClock == Init /\ [][NextClock]_vars

-----------------------------------------------------------------------------
\* The second connection.  Its methods are those of the first one, on the
\* fields of peer; they share the pool, the env and the two counters.

\* getUsername, of the second connection
peerUsername ==
    IF GetPrincipal(peer.reservedProps.EffectiveCaller) # ""
    THEN GetPrincipal(peer.reservedProps.EffectiveCaller)
    ELSE GetUsername(peer.reservedProps.ImmediateCaller)

\* logReservedConn, of the second connection
peerLogReservedConn(reason) ==
    IF peer.reservedProps = Nil
    THEN UNCHANGED <<UserActiveReservedCount, UserReservedCount>>
    ELSE IF SkipUserMetrics
    THEN /\ UserActiveReservedCount' =
                [UserActiveReservedCount EXCEPT ![userLabelDisabled] = @ - 1]
         /\ UNCHANGED UserReservedCount
    ELSE /\ UserActiveReservedCount' =
                [UserActiveReservedCount EXCEPT ![peerUsername] = @ - 1]
         /\ UserReservedCount' = [UserReservedCount EXCEPT ![peerUsername] = @ + 1]

\* ReleaseString, of the second connection
peerReleaseString(reason) ==
    IF peer.dbConn = Nil
    THEN /\ UNCHANGED <<peer, UserActiveReservedCount, UserReservedCount>>
         /\ calls' = <<>>
    ELSE /\ peer' = [peer EXCEPT !.dbConn = Nil,
                                 !.registered = IF hasPool THEN FALSE ELSE @]
         /\ peerLogReservedConn(reason)
         /\ calls' = (IF hasPool THEN <<Call("unregister", reason)>> ELSE <<>>)
                     \o <<Call("Recycle", ""), Call("dbConn = nil", "")>>
                     \o (IF peer.reservedProps # Nil
                         THEN <<Call("Stats.Record", reason)>> ELSE <<>>)

\* the variables of the first connection, which the second one leaves alone
firstConn ==
    <<config, dbConn, registered, inUse, unregistered, recycled, txState,
      reservedState, timeState, now, owners, refs>>

\* Taint, of the second connection
PeerTaint(c) ==
    /\ IF peer.dbConn = Nil
       THEN /\ res' = Err("FAILED_PRECONDITION", "connection is closed")
            /\ calls' = <<>>
            /\ UNCHANGED <<peer, UserActiveReservedCount>>
       ELSE IF peer.tainted
       THEN /\ res' = Err("FAILED_PRECONDITION", "connection is already reserved")
            /\ calls' = <<>>
            /\ UNCHANGED <<peer, UserActiveReservedCount>>
       ELSE /\ peer' = [peer EXCEPT !.tainted = TRUE,
                                    !.reservedProps = NewReservedProps(c)]
            /\ calls' = <<Call("dbConn.Taint", "")>>
            /\ UserActiveReservedCount' =
                   [UserActiveReservedCount EXCEPT
                       ![IF SkipUserMetrics THEN userLabelDisabled
                                            ELSE peerUsername'] = @ + 1]
            /\ res' = OK
    /\ op' = "peer.Taint"
    /\ UNCHANGED <<planner, vindex, firstConn, UserReservedCount>>

\* Release, of the second connection
PeerRelease(reason) ==
    /\ peerReleaseString(ReasonString(reason))
    /\ op' = "peer.Release" /\ res' = OK
    /\ UNCHANGED <<planner, vindex, firstConn>>

\* Unlock, of the second connection, which is in no transaction
PeerUnlock ==
    /\ IF peer.dbConn = Nil
       THEN /\ UNCHANGED <<peer, UserActiveReservedCount, UserReservedCount>>
            /\ calls' = <<>>
            /\ res' = OK
       ELSE IF peer.dbConn.closed
       THEN /\ peerReleaseString("unlocked closed connection")
            /\ res' = OK
       ELSE /\ UNCHANGED <<peer, UserActiveReservedCount, UserReservedCount>>
            /\ calls' = IF hasPool THEN <<Call("markAsNotInUse", "true")>>
                                   ELSE <<>>
            /\ res' = IF hasPool THEN OK ELSE Panic
    /\ op' = "peer.Unlock"
    /\ UNCHANGED <<planner, vindex, firstConn>>

\* Renew, of the second connection
PeerRenew(ok) ==
    /\ hasPool
    /\ IF ok /\ peer.registered /\ peer.dbConn # Nil
       THEN /\ peer' = [peer EXCEPT !.dbConn = [closed |-> FALSE]]
            /\ res' = OK
            /\ calls' = <<Call("renewConn", "")>>
       ELSE /\ res' = Err("RenewErr", "connection renew failed")
            /\ IF peer.dbConn # Nil
               THEN /\ peer' = [peer EXCEPT !.dbConn.closed = TRUE]
                    /\ calls' = <<Call("renewConn", ""), Call("Close", "")>>
               ELSE /\ UNCHANGED peer
                    /\ calls' = <<Call("renewConn", "")>>
    /\ op' = "peer.Renew"
    /\ UNCHANGED <<planner, vindex, firstConn, UserActiveReservedCount,
                   UserReservedCount>>

\* MySQL closes the backend connection of the second connection
PeerBackendClose ==
    /\ peer.dbConn # Nil /\ ~peer.dbConn.closed
    /\ peer' = [peer EXCEPT !.dbConn.closed = TRUE]
    /\ op' = "peer.BackendClose" /\ res' = OK /\ calls' = <<>>
    /\ UNCHANGED <<planner, vindex, firstConn, UserActiveReservedCount,
                   UserReservedCount>>

\* Taint, Unlock, Renew and Release on two connections, in any order
NextReserved ==
    \/ \E c \in Callers : Get(c)
    \/ \E c \in Callers : Taint(c)
    \/ \E c \in Callers : Unlock(c)
    \/ \E c \in Callers : UnlockUpdateTime(c)
    \/ \E c \in Callers, ok \in BOOLEAN : Renew(c, ok)
    \/ \E c \in Callers, r \in Reasons : Release(c, r)
    \/ BackendClose
    \/ \E c \in Callers : PeerTaint(c)
    \/ PeerUnlock
    \/ \E ok \in BOOLEAN : PeerRenew(ok)
    \/ \E r \in Reasons : PeerRelease(r)
    \/ PeerBackendClose

SpecReserved == Init /\ [][NextReserved]_vars
-----------------------------------------------------------------------------
\* Properties of the StatefulConnection

\* the methods that give the connection back
ReleaseOps == {"Release", "Releasef", "ReleaseString", "Unlock", "UnlockUpdateTime"}

\* the state of the program: the connection, the pool's entry, the stats
progState == <<config, released, txProps, reservedState, timeState, now>>

\* cs holds a call of name
Called(cs, name) == \E i \in 1..Len(cs) : cs[i][1] = name

\* the calls that reach the backend connection
BackendCalls == {"ExecOnce", "Exec", "FetchNext", "Recycle", "Close", "Kill",
                 "dbConn.Taint", "Setting", "ApplySetting", "Current", "ID",
                 "IsUnixSocket"}
TouchesBackend(cs) == \E i \in 1..Len(cs) : cs[i][1] \in BackendCalls

\* C1: whatever Release / Releasef / ReleaseString / Unlock / UnlockUpdateTime
\* calls are made, unregister is called at most once and the backend is
\* recycled at most once, and such a call on a released connection calls
\* nothing and changes nothing.
C1_ReleaseAtMostOnce ==
    [][ /\ unregistered' <= 1
        /\ recycled' <= 1
        /\ (op' \in ReleaseOps /\ dbConn = Nil)
              => (calls' = <<>> /\ UNCHANGED progState) ]_vars

\* a second release was called on a released connection, and did nothing
C1_Witness ==
    /\ op \in {"Release", "Releasef", "ReleaseString"}
    /\ dbConn = Nil /\ calls = <<>>
    /\ unregistered = 1 /\ recycled = 1

\* C2: on a released connection every other public method returns a sentinel
\* error or is a no-op: none fails in another way or touches the backend.
C2Ops == {"Exec", "execWithRetry", "FetchNext", "Unlock", "UnlockUpdateTime",
          "Taint", "Renew", "Kill", "ApplySetting", "Current", "ID",
          "IsUnixSocket"}
C2_ReleasedShortCircuits ==
    [][ (dbConn = Nil /\ op' \in C2Ops)
          => /\ res'.code \in {"OK", "ABORTED", "CANCELED", "FAILED_PRECONDITION",
                               "RenewErr"}
             /\ ~TouchesBackend(calls')
             /\ dbConn' = Nil ]_vars

\* C3: the connection has at most one owner at a time.
C3_OneOwner == Cardinality(owners) <= 1

\* C4: released is terminal: Exec, execWithRetry, FetchNext, Unlock,
\* UnlockUpdateTime, Release*, Taint, LogTransaction, CleanTxState and
\* SetTimeout leave dbConn nil, and none parks the connection again.
C4Ops == {"Exec", "execWithRetry", "FetchNext", "Unlock", "UnlockUpdateTime",
          "Release", "Releasef", "ReleaseString", "Taint", "LogTransaction",
          "CleanTxState", "SetTimeout"}
C4_ReleasedIsTerminal ==
    [][ (dbConn = Nil /\ op' \in C4Ops)
          => /\ dbConn' = Nil
             /\ ~Called(calls', "markAsNotInUse")
             /\ inUse' = inUse /\ registered' = registered ]_vars

\* Unlock was called on a released connection, and parked nothing
C4_Witness ==
    /\ op \in {"Unlock", "UnlockUpdateTime"}
    /\ hasPool /\ dbConn = Nil /\ calls = <<>> /\ ~registered /\ ~inUse

\* C5: Exec on a closed connection (released, or backend closed) does not
\* reach the backend and fails with ABORTED: "transaction was aborted:
\* <conclusion>" with the conclusion LogTransaction last stamped when txProps
\* is set, "connection was aborted" when txProps is nil.
C5_ExecClosedAborted ==
    [][ (op' = "Exec" /\ (dbConn = Nil \/ dbConn.closed))
          => /\ calls' = <<>>
             /\ res'.code = "ABORTED"
             /\ IF txProps # Nil
                THEN res'.msg = "transaction was aborted: %v" /\ res'.arg = stamped
                ELSE res'.msg = "connection was aborted" /\ res'.arg = "" ]_vars

\* Exec on a connection whose backend closed, after LogTransaction(TxCommit)
C5_Witness ==
    /\ op = "Exec" /\ dbConn # Nil /\ dbConn.closed
    /\ txProps # Nil /\ stamped = "commit"
    /\ res = Errf("ABORTED", "transaction was aborted: %v", "commit")

\* C6, as claimed: Exec after Release returns CANCELED without a transaction
\* and ABORTED with one, and unregister has been called exactly once.
C6_AsClaimed ==
    (op = "Exec" /\ dbConn = Nil)
       => /\ res.code = IF txProps = Nil THEN "CANCELED" ELSE "ABORTED"
          /\ unregistered = 1

\* C6, amended: Exec after Release returns ABORTED with or without a
\* transaction ("connection was aborted" exactly when txProps is nil), and
\* unregister has been called exactly once on a connection that has a pool,
\* and never on one that has none.
C6_ExecAfterRelease ==
    (op = "Exec" /\ dbConn = Nil)
       => /\ res.code = "ABORTED"
          /\ (res.msg = "connection was aborted") <=> (txProps = Nil)
          /\ unregistered = IF hasPool THEN 1 ELSE 0

\* Exec after the release of a pooled connection without a transaction
C6_Witness ==
    /\ op = "Exec" /\ dbConn = Nil /\ txProps = Nil /\ hasPool
    /\ res.code = "ABORTED" /\ unregistered = 1

\* C7: FetchNext and execWithRetry on a closed connection fail with CANCELED
\* whatever the transaction state, call nothing and change nothing.
C7_FetchClosedCanceled ==
    [][ (op' \in {"FetchNext", "execWithRetry"} /\ (dbConn = Nil \/ dbConn.closed))
          => /\ res' = Err("CANCELED", "connection is closed")
             /\ calls' = <<>>
             /\ UNCHANGED progState ]_vars

\* FetchNext inside a transaction, on a connection whose backend closed
C7_Witness ==
    /\ op = "FetchNext" /\ dbConn # Nil /\ dbConn.closed /\ txProps # Nil
    /\ res.code = "CANCELED"

\* C8: once tainted, the connection stays tainted, and every later Taint
\* fails with FAILED_PRECONDITION and leaves tainted, reservedProps (StartTime
\* and caller ids) and UserActiveReservedCount as they were.
C8_TaintOnce ==
    [][ /\ tainted => tainted'
        /\ (op' = "Taint" /\ tainted)
              => /\ res'.code = "FAILED_PRECONDITION"
                 /\ UNCHANGED <<tainted, reservedProps, UserActiveReservedCount>> ]_vars

\* a second Taint, by another caller at a later time, on a live connection
C8_Witness ==
    /\ op = "Taint" /\ res = Err("FAILED_PRECONDITION", "connection is already reserved")
    /\ dbConn # Nil /\ tainted /\ reservedProps # Nil
    /\ reservedProps.StartTime < now
    /\ \E c \in owners : EffectiveCallerIDFromContext(c) # reservedProps.EffectiveCaller

\* C9: Taint on a closed connection (released, or backend closed) fails with
\* FAILED_PRECONDITION and leaves tainted, reservedProps and
\* UserActiveReservedCount as they were.
C9_TaintClosedFails ==
    [][ (op' = "Taint" /\ (dbConn = Nil \/ dbConn.closed))
          => /\ res'.code = "FAILED_PRECONDITION"
             /\ UNCHANGED <<tainted, reservedProps, UserActiveReservedCount>> ]_vars

\* C10: tainted holds exactly when reservedProps is set, in every state.
C10_TaintedIffReserved == tainted <=> (reservedProps # Nil)

\* a tainted connection, after its release
C10_Witness == tainted /\ reservedProps # Nil /\ dbConn = Nil /\ op \in ReleaseOps

\* the sum of a counter over its labels
Total(counter) == counter["alice"] + counter["vtgate"] + counter[userLabelDisabled]

\* C11: a successful Taint is balanced at release by exactly one decrement of
\* UserActiveReservedCount under the label Taint incremented and exactly one
\* increment of UserReservedCount, with SkipUserMetrics set or not, however
\* many Release / Unlock calls follow: a reserved connection that is not yet
\* released counts once as active and not as reserved, and a released one
\* counts under no label as active and exactly once as reserved.
C11_MetricParity ==
    tainted =>
       IF dbConn # Nil
       THEN /\ Total(UserActiveReservedCount) = 1
            /\ Total(UserReservedCount) = 0
       ELSE /\ \A l \in Labels : UserActiveReservedCount[l] = 0
            /\ Total(UserReservedCount) = 1

\* how many calls of name cs holds
Count(cs, name) == Cardinality({i \in 1..Len(cs) : cs[i][1] = name})

\* C12: LogTransaction does nothing when txProps is nil; otherwise it stamps
\* Conclusion with the reason's name, sends exactly one record to the tx
\* logger and adds one to UserTransactionCount{user, conclusion}, where user
\* is the effective caller's principal when that is not empty, else the
\* immediate caller's username, and userLabelDisabled when SkipUserMetrics
\* is set.
C12_LogTransaction ==
    [][ op' = "LogTransaction" =>
          IF txProps = Nil
          THEN calls' = <<>> /\ UNCHANGED progState
          ELSE \E r \in Reasons :
                 LET user == IF SkipUserMetrics THEN userLabelDisabled
                             ELSE IF txProps.EffectiveCaller # ""
                             THEN txProps.EffectiveCaller
                             ELSE txProps.ImmediateCaller
                 IN  /\ txProps' = [txProps EXCEPT !.Conclusion = ReasonName(r)]
                     /\ Count(calls', "TxLogger.Send") = 1
                     /\ Count(calls', "UserTransactionCount.Add") = 1
                     /\ \E i \in 1..Len(calls') :
                          calls'[i] = <<"UserTransactionCount.Add", user,
                                        ReasonName(r)>> ]_vars

\* C13: Unlock / UnlockUpdateTime on an in-use connection does one of two
\* things.  Backend alive: the connection is parked, markAsNotInUse is called
\* once, unregister is not called and dbConn is kept.  Backend closed: the
\* connection is released with the reason "unlocked closed connection",
\* unregister is called, dbConn is nil afterwards, and it is not parked.
C13_UnlockOutcomes ==
    [][ (op' \in {"Unlock", "UnlockUpdateTime"} /\ inUse /\ dbConn # Nil) =>
          IF ~dbConn.closed
          THEN /\ Count(calls', "markAsNotInUse") = 1
               /\ ~Called(calls', "unregister")
               /\ ~Called(calls', "Recycle")
               /\ dbConn' = dbConn
               /\ registered' /\ ~inUse'
          ELSE /\ Count(calls', "unregister") = 1
               /\ calls'[1] = <<"unregister", "unlocked closed connection", "">>
               /\ ~Called(calls', "markAsNotInUse")
               /\ dbConn' = Nil
               /\ ~registered' /\ ~inUse' ]_vars

\* Unlock found the backend of the connection in use closed, and released it
C13_Witness ==
    /\ op \in {"Unlock", "UnlockUpdateTime"}
    /\ dbConn = Nil /\ ~registered /\ unregistered = 1
    /\ calls # <<>> /\ calls[1] = <<"unregister", "unlocked closed connection", "">>

C15_ExecFailure ==
    [][ (op' = "Exec" /\ dbConn # Nil /\ ~dbConn.closed /\ res'.code # "OK")
          => /\ calls'[1] = <<"ExecOnce", "", "">>
             /\ res' \in {Err("ConnErr", ""), Err("SQLErr", "")}
             /\ Called(calls', "ctx.Done") <=> (res'.code = "ConnErr")
             /\ Count(calls', "CheckMySQL") <= 1
             /\ Called(calls', "CheckMySQL")
                  <=> /\ res'.code = "ConnErr"
                      /\ \E i \in 1..Len(calls') :
                           calls'[i] = <<"ctx.Done", "false", "">>
             /\ ~Called(calls', "unregister") /\ ~Called(calls', "Recycle")
             /\ ~Called(calls', "Close")
             /\ UNCHANGED progState ]_vars

\* ExecOnce failed with a connection error after the context was done, and
\* Exec did not ask for the MySQL check
C15_Witness ==
    /\ op = "Exec" /\ res = Err("ConnErr", "")
    /\ calls = <<<<"ExecOnce", "", "">>, <<"ctx.Done", "true", "">>>>
    /\ dbConn # Nil /\ ~dbConn.closed

\* C26: when a live connection is parked, Unlock asks the pool to refresh
\* the connection's time if and only if the connection is not in a
\* transaction (txProps is nil), while UnlockUpdateTime always asks for the
\* refresh; so the rounds of handing out and Unlock inside one transaction
\* never extend the connection's time.
C26_UnlockRefresh ==
    [][ /\ ( /\ op' \in {"Unlock", "UnlockUpdateTime"}
             /\ hasPool /\ dbConn # Nil /\ ~dbConn.closed )
             => LET refresh == op' = "UnlockUpdateTime" \/ txProps = Nil
                IN  /\ calls' = <<<<"markAsNotInUse",
                                    IF refresh THEN "true" ELSE "false", "">>>>
                    /\ expiryTime' = IF refresh THEN now + timeout ELSE expiryTime
        /\ (txProps # Nil /\ op' \in {"Get", "Unlock"})
             => expiryTime' = expiryTime ]_vars

\* in a transaction, after the clock has advanced, Unlock has parked the
\* connection and left its time where a refresh would have moved it
C26_Witness ==
    /\ op = "Unlock" /\ txProps # Nil
    /\ calls = <<<<"markAsNotInUse", "false", "">>>>
    /\ ~inUse /\ registered
    /\ expiryTime < now + timeout

\* C27: ElapsedTimeout is true exactly when enforceTimeout is set, timeout > 0
\* and expiryTime is before now; SetTimeout(d) sets timeout to d and
\* expiryTime to now + d; ElapsedTimeout is advisory and changes no state: a
\* connection whose timeout has elapsed is not closed, released or
\* unregistered by the check or by the passing of time.
C27_ElapsedTimeout ==
    [][ /\ op' = "ElapsedTimeout"
             => /\ res'.arg = IF enforceTimeout /\ timeout > 0 /\ expiryTime < now
                              THEN "true" ELSE "false"
                /\ calls' = <<>>
                /\ UNCHANGED <<hasPool, dbConn, txProps, reservedProps, tainted,
                               enforceTimeout, timeout, expiryTime, now, registered,
                               inUse, unregistered, recycled,
                               UserActiveReservedCount, UserReservedCount>>
        /\ op' = "SetTimeout"
             => /\ timeout' \in Durations
                /\ expiryTime' = now + timeout'
                /\ UNCHANGED <<dbConn, registered, inUse, enforceTimeout>>
        /\ (enforceTimeout /\ timeout > 0 /\ expiryTime < now
              /\ op' \in {"ElapsedTimeout", "Tick"})
             => UNCHANGED <<dbConn, registered, inUse, unregistered, recycled>> ]_vars

\* the sweeper was told that the timeout of a parked connection has elapsed,
\* and the connection is still open and registered
C27_Witness ==
    /\ op = "ElapsedTimeout" /\ res.arg = "true"
    /\ timeout = 1 /\ expiryTime = 1 /\ now = 2
    /\ dbConn # Nil /\ ~dbConn.closed /\ registered /\ ~inUse

\* C29: within one effective release the steps happen in a fixed order:
\* pool.unregister(ConnID, reason) first, then the backend connection is
\* recycled, then dbConn is set to nil, then the stats of a reserved
\* connection are logged; when the connection has no pool the unregister
\* step is skipped, but the backend is still recycled and dbConn is still
\* nulled.
C29_ReleaseOrder ==
    [][ (dbConn # Nil /\ dbConn' = Nil) =>
          /\ op' \in {"Release", "Releasef", "ReleaseString", "Unlock",
                       "UnlockUpdateTime"}
          /\ \E reason \in {ReasonString(r) : r \in Reasons} \cup ReasonTexts
                          \cup {"unlocked closed connection"} :
                calls' = (IF hasPool THEN <<<<"unregister", reason, "">>>> ELSE <<>>)
                         \o <<<<"Recycle", "", "">>, <<"dbConn = nil", "", "">>>>
                         \o (IF reservedProps # Nil
                             THEN <<<<"Stats.Record", reason, "">>>> ELSE <<>>)
          /\ recycled' = recycled + 1
          /\ unregistered' = IF hasPool THEN unregistered + 1 ELSE unregistered
          /\ hasPool => ~registered' ]_vars

\* a reserved connection of a pool was released: the pool was told, then the
\* backend was recycled, then dbConn was nulled, then the stats were logged
C29_Witness ==
    /\ op = "Release" /\ dbConn = Nil /\ hasPool /\ reservedProps # Nil
    /\ Len(calls) = 4
    /\ calls[1][1] = "unregister" /\ calls[2][1] = "Recycle"
    /\ calls[3][1] = "dbConn = nil" /\ calls[4][1] = "Stats.Record"
    /\ calls[4][2] = calls[1][2]

\* C30: a release changes only dbConn (and the pool's registration and the
\* counters): it leaves txProps, tainted, reservedProps, timeout and
\* expiryTime unchanged, so after a release IsTainted() and IsInTransaction()
\* still report what they reported before; and only CleanTxState clears
\* txProps.
C30_ReleaseFrame ==
    [][ /\ ( \/ op' \in {"Release", "Releasef", "ReleaseString"}
             \/ dbConn # Nil /\ dbConn' = Nil )
             => /\ UNCHANGED <<txProps, tainted, reservedProps, timeout, expiryTime,
                               hasPool, enforceTimeout, now>>
                /\ IsTainted' = IsTainted
                /\ IsInTransaction' = IsInTransaction
        /\ (txProps # Nil /\ txProps' = Nil) => op' = "CleanTxState" ]_vars

\* a tainted connection in a transaction was released, and still reports
\* that it is tainted and in a transaction
C30_Witness ==
    /\ op = "Release" /\ dbConn = Nil
    /\ calls # <<>>
    /\ tainted /\ reservedProps # Nil /\ txProps # Nil
    /\ IsTainted /\ IsInTransaction


\* the label a connection reserved with props counts under
ReservedLabel(props) ==
    IF SkipUserMetrics THEN userLabelDisabled
    ELSE IF props.EffectiveCaller # "" THEN props.EffectiveCaller
    ELSE props.ImmediateCaller

\* how many of the two connections were tainted under label l and are not yet
\* released
ActiveReserved(l) ==
    (IF tainted /\ dbConn # Nil /\ ReservedLabel(reservedProps) = l
     THEN 1 ELSE 0)
    + (IF peer.tainted /\ peer.dbConn # Nil
          /\ ReservedLabel(peer.reservedProps) = l
       THEN 1 ELSE 0)

\* C31: across any sequence of Taint, Unlock, Renew and Release on the two
\* connections, UserActiveReservedCount of every label is never below zero and
\* equals the number of connections that were tainted under that label and are
\* not yet released; and the release of a connection that was never tainted
\* changes neither UserActiveReservedCount nor UserReservedCount.
C31_ActiveReservedCount ==
    /\ [](\A l \in Labels :
            /\ UserActiveReservedCount[l] >= 0
            /\ UserActiveReservedCount[l] = ActiveReserved(l))
    /\ [][/\ (op' \in ReleaseOps /\ ~tainted)
              => UNCHANGED <<UserActiveReservedCount, UserReservedCount>>
          /\ (op' \in {"peer.Release", "peer.Unlock"} /\ ~peer.tainted)
              => UNCHANGED <<UserActiveReservedCount, UserReservedCount>>]_vars

\* both connections were reserved for alice, and the second one was released
C31_Witness ==
    /\ ~SkipUserMetrics
    /\ tainted /\ dbConn # Nil /\ ReservedLabel(reservedProps) = "alice"
    /\ peer.tainted /\ peer.dbConn = Nil
    /\ ReservedLabel(peer.reservedProps) = "alice"
    /\ op = "peer.Release"
    /\ UserActiveReservedCount["alice"] = 1
    /\ UserReservedCount["alice"] = 1

-----------------------------------------------------------------------------
\* The SELECT planner (go/vt/vtgate/planbuilder/select.go)

\* sqlparser nodes
Literal(val) == [type |-> "Literal", Val |-> val]
Argument(name) == [type |-> "Argument", Name |-> name]
ColName(name) == [type |-> "ColName", Name |-> name]
CountStar == [type |-> "CountStar"]
LockingFunc(typ, name) == [type |-> "LockingFunc", Type |-> typ, Name |-> name]
AliasedExpr(expr, as) == [type |-> "AliasedExpr", Expr |-> expr, As |-> as]
StarExpr == [type |-> "StarExpr"]
TableName(name, qualifier) == [type |-> "TableName", Name |-> name, Qualifier |-> qualifier]
AliasedTableExpr(expr, as) == [type |-> "AliasedTableExpr", Expr |-> expr, As |-> as]
DerivedTable(select) == [type |-> "DerivedTable", Select |-> select]
JoinTableExpr == [type |-> "JoinTableExpr"]
Limit(offset, rowcount) == [Offset |-> offset, Rowcount |-> rowcount]

\* the expressions of the select lists planned here: get_lock('x', 0),
\* get_lock(c, 0), release_all_locks(), 1, count(*)
GetLock == LockingFunc("GET_LOCK", Literal("x"))
GetLockOfColumn == LockingFunc("GET_LOCK", ColName("c"))
ReleaseAllLocks == LockingFunc("RELEASE_ALL_LOCKS", Nil)
One == Literal("1")

\* the select lists planned here: every list of one column, and every list
\* of two columns among get_lock('x', 0), 1 and count(*), and 1 AS a, 1
Columns == {AliasedExpr(GetLock, ""), AliasedExpr(GetLockOfColumn, ""),
            AliasedExpr(ReleaseAllLocks, ""), AliasedExpr(One, ""),
            AliasedExpr(One, "a"), AliasedExpr(CountStar, ""), StarExpr}
PairColumns == {AliasedExpr(GetLock, ""), AliasedExpr(One, ""),
                AliasedExpr(CountStar, "")}
SelectExprsSet ==
    {<<e>> : e \in Columns}
      \cup {<<e1, e2>> : e1 \in PairColumns, e2 \in PairColumns}
      \cup {<<AliasedExpr(One, "a"), AliasedExpr(One, "")>>}

\* FROM dual; FROM ks.dual; FROM t; FROM dual, dual; FROM t JOIN u;
\* FROM (SELECT ...) AS d
Dual == AliasedTableExpr(TableName("dual", ""), "")
FromSet == {<<Dual>>,
            <<AliasedTableExpr(TableName("dual", "ks"), "")>>,
            <<AliasedTableExpr(TableName("t", ""), "")>>,
            <<Dual, Dual>>,
            <<JoinTableExpr>>,
            <<AliasedTableExpr(DerivedTable(Nil), "d")>>}

\* no LIMIT; LIMIT 0; LIMIT 1; LIMIT :v; LIMIT 1, 1; a Limit without rowcount
LimitSet == {Nil, Limit(Nil, Literal("0")), Limit(Nil, One),
             Limit(Nil, Argument("v")), Limit(One, One), Limit(Nil, Nil)}

\* WHERE, GROUP BY, HAVING, ORDER BY: none of them, or one of them
NoClauses == [Where |-> Nil, GroupBy |-> Nil, Having |-> Nil, OrderBy |-> Nil]
ClausesSet == {NoClauses,
               [NoClauses EXCEPT !.Where = [Expr |-> "p OR q"]],
               [NoClauses EXCEPT !.GroupBy = [Exprs |-> <<"a">>]],
               [NoClauses EXCEPT !.Having = [Expr |-> "p"]],
               [NoClauses EXCEPT !.OrderBy = [Exprs |-> <<"a">>]]}

\* *sqlparser.Select
Select(calc, exprs, from, clauses, limit) ==
    [type |-> "Select", SQLCalcFoundRows |-> calc, SelectExprs |-> exprs,
     From |-> from, Where |-> clauses.Where, GroupBy |-> clauses.GroupBy,
     Having |-> clauses.Having, OrderBy |-> clauses.OrderBy, Limit |-> limit]

\* *sqlparser.Union: a SelectStatement that is not a simple Select
Union == [type |-> "Union", Where |-> [Expr |-> "p OR q"]]

\* the statements planned here: every select list, FROM, clause and LIMIT
\* above without SQL_CALC_FOUND_ROWS; with it, the lists of one column 1,
\* count(*) or get_lock('x', 0), from dual or from t; and one union
Statements ==
    {Select(FALSE, exprs, from, clauses, limit) :
        exprs \in SelectExprsSet, from \in FromSet,
        clauses \in ClausesSet, limit \in LimitSet}
      \cup {Select(TRUE, <<AliasedExpr(expr, "")>>, from, clauses, limit) :
              expr \in {One, CountStar, GetLock},
              from \in {<<Dual>>, <<AliasedTableExpr(TableName("t", ""), "")>>},
              clauses \in ClausesSet, limit \in LimitSet}
      \cup {Union}

\* what the VSchema answers to SelectedKeyspace and FirstSortedKeyspace: a
\* keyspace, or Nil with an error
VSchemas == {[SelectedKeyspace |-> [Name |-> "ks"], FirstSortedKeyspace |-> [Name |-> "ks"]],
             [SelectedKeyspace |-> Nil, FirstSortedKeyspace |-> [Name |-> "ks"]],
             [SelectedKeyspace |-> Nil, FirstSortedKeyspace |-> Nil]}

\* sqlparser.String of an expression
StringOfExpr(expr) ==
    CASE expr.type = "Literal" -> expr.Val
      [] expr.type = "ColName" -> expr.Name
      [] expr.type = "CountStar" -> "count(*)"
      [] expr.type = "LockingFunc" ->
            IF expr.Name = Nil THEN "release_all_locks()"
            ELSE "get_lock(" \o (IF expr.Name.type = "Literal"
                                 THEN "'" \o expr.Name.Val \o "'"
                                 ELSE expr.Name.Name) \o ", 0)"

\* sqlparser.String of an aliased expression
String(node) ==
    IF node.As = "" THEN StringOfExpr(node.Expr)
    ELSE StringOfExpr(node.Expr) \o " as " \o node.As

\* evalengine.Translate: the evalengine evaluates literals; it has no
\* column to read and no aggregation, so it fails on those
Translatable(expr) == expr.type = "Literal"
Translate(expr) ==
    IF Translatable(expr)
    THEN [expr |-> [eval |-> expr], err |-> Nil]
    ELSE [expr |-> Nil, err |-> Err("TranslateErr", "")]

\* SelectExprs.AllAggregation: every select expression is an aggregation
AllAggregation(exprs) ==
    \A i \in 1..Len(exprs) :
        exprs[i].type = "AliasedExpr" /\ exprs[i].Expr.type = "CountStar"

\* engine primitives
Route(opcode, sysTableTableName, sysTableTableSchema) ==
    [type |-> "Route", Opcode |-> opcode,
     SysTableTableName |-> sysTableTableName,
     SysTableTableSchema |-> sysTableTableSchema,
     NoRoutesSpecialHandling |-> FALSE]
VindexLookup(sendTo) == [type |-> "VindexLookup", SendTo |-> sendTo]
Concatenate == [type |-> "Concatenate"]
SingleRow == [type |-> "SingleRow"]

\* what the collaborators of newBuildSelectPlan answer for one statement:
\* whether CreatePlanningContext succeeds, whether the semantic table allows
\* the unsharded shortcut, whether it holds a NotUnshardedErr, and the
\* primitive that comes out (Nil: an error instead)
Answers(context, shortcut, notUnsharded, out) ==
    [CreatePlanningContext |-> context, CanTakeSelectUnshardedShortcut |-> shortcut,
     NotUnshardedErr |-> notUnsharded, out |-> out]
BuildAnswers ==
    {Answers("err", FALSE, FALSE, Nil),
     Answers("ok", TRUE, FALSE, Route("Unsharded", <<>>, <<>>)),
     Answers("ok", TRUE, FALSE, Nil),
     Answers("ok", FALSE, TRUE, Nil),
     Answers("ok", FALSE, FALSE, Nil),
     Answers("ok", FALSE, FALSE, Route("DBA", <<>>, <<>>)),
     Answers("ok", FALSE, FALSE, Route("DBA", <<>>, <<"s">>)),
     Answers("ok", FALSE, FALSE, VindexLookup(Route("EqualUnique", <<>>, <<>>))),
     Answers("ok", FALSE, FALSE, Concatenate)}

\* operators.TablesUsed: the tables of the statement
TablesUsed(selStmt) ==
    IF selStmt.type = "Union" THEN <<"ks.t", "ks.u">>
    ELSE [i \in 1..Len(selStmt.From) |->
            IF selStmt.From[i].type = "AliasedTableExpr"
               /\ selStmt.From[i].Expr.type = "TableName"
            THEN (IF selStmt.From[i].Expr.Qualifier = "" THEN "ks"
                  ELSE selStmt.From[i].Expr.Qualifier)
                 \o "." \o selStmt.From[i].Expr.Name
            ELSE "ks.t"]

\* newPlanResult
newPlanResult(prim, tablesUsed) == [primitive |-> prim, tables |-> tablesUsed, err |-> Nil]

\* a failed planning: return nil, err
planError(err) == [primitive |-> Nil, tables |-> <<>>, err |-> err]

\* isOnlyDual that accepts the rowcount "0" and no other literal
isOnlyDualOfLimitZero(sel) ==
    IF sel.Where # Nil \/ sel.GroupBy # Nil \/ sel.Having # Nil \/ sel.OrderBy # Nil
    THEN FALSE
    ELSE IF sel.Limit # Nil /\ sel.Limit.Offset # Nil
    THEN FALSE
    ELSE IF /\ sel.Limit # Nil /\ sel.Limit.Rowcount # Nil
            /\ IF sel.Limit.Rowcount.type = "Literal"
               THEN sel.Limit.Rowcount.Val # "0"
               ELSE TRUE
    THEN FALSE
    ELSE IF Len(sel.From) > 1
    THEN FALSE
    ELSE IF sel.From[1].type # "AliasedTableExpr"
    THEN FALSE
    ELSE /\ sel.From[1].Expr.type = "TableName"
         /\ sel.From[1].Expr.Name = "dual"
         /\ sel.From[1].Expr.Qualifier = ""

\* isOnlyDual
isOnlyDual(sel) ==
    IF sel.Where # Nil \/ sel.GroupBy # Nil \/ sel.Having # Nil \/ sel.OrderBy # Nil
    THEN FALSE
    ELSE IF sel.Limit # Nil /\ sel.Limit.Offset # Nil
    THEN FALSE
    ELSE IF /\ sel.Limit # Nil /\ sel.Limit.Rowcount # Nil
            /\ IF sel.Limit.Rowcount.type = "Literal"
               THEN sel.Limit.Rowcount.Val = "0"
               ELSE TRUE
    THEN FALSE
    ELSE IF Len(sel.From) > 1
    THEN FALSE
    ELSE IF sel.From[1].type # "AliasedTableExpr"
    THEN FALSE
    ELSE /\ sel.From[1].Expr.type = "TableName"
         /\ sel.From[1].Expr.Name = "dual"
         /\ sel.From[1].Expr.Qualifier = ""

\* shouldRetryAfterPredicateRewriting that asks for the retry after any Route
shouldRetryAfterAnyRoute(plan) == plan.type = "Route"

\* shouldRetryAfterPredicateRewriting
shouldRetryAfterPredicateRewriting(plan) ==
    IF plan.type = "Route"
    THEN /\ plan.Opcode = "DBA"
         /\ Len(plan.SysTableTableName) = 0
         /\ Len(plan.SysTableTableSchema) = 0
    ELSE FALSE

\* buildLockingPrimitive
buildLockingPrimitive(sel, vs, lockFunctions) ==
    IF vs.FirstSortedKeyspace = Nil
    THEN [primitive |-> Nil, err |-> Err("VT05003", "no keyspace")]
    ELSE [primitive |->
            [type |-> "Lock", Keyspace |-> vs.FirstSortedKeyspace,
             TargetDestination |-> "DestinationKeyspaceID{0}",
             FieldQuery |-> [format |-> "FormatImpossibleQuery", node |-> sel],
             LockFunctions |-> lockFunctions],
          err |-> Nil]

\* a call the planner makes, with its argument
PlanCall(name, arg) == [call |-> name, arg |-> arg]

\* handleDualSelects, the loop over the columns from column i on: either a
\* return out of the loop, or the expressions, the column names and the lock
\* functions collected
RECURSIVE dualColumns(_, _, _, _, _)
dualColumns(columns, i, exprs, cols, lockFunctions) ==
    IF i > Len(columns)
    THEN [returned |-> FALSE, primitive |-> Nil, err |-> Nil,
          exprs |-> exprs, cols |-> cols, lockFunctions |-> lockFunctions]
    ELSE LET expr == columns[i]
             return(err) == [returned |-> TRUE, primitive |-> Nil, err |-> err,
                             exprs |-> exprs, cols |-> cols,
                             lockFunctions |-> lockFunctions]
         IN  IF expr.type # "AliasedExpr"
             THEN return(Nil)
             ELSE IF expr.Expr.type = "LockingFunc"
             THEN IF expr.Expr.Name # Nil /\ Translate(expr.Expr.Name).err # Nil
                  THEN return(Translate(expr.Expr.Name).err)
                  ELSE dualColumns(columns, i + 1, exprs, cols,
                         Append(lockFunctions,
                                [Typ |-> expr.Expr,
                                 Name |-> IF expr.Expr.Name = Nil THEN Nil
                                          ELSE Translate(expr.Expr.Name).expr]))
             ELSE IF Len(lockFunctions) > 0
             THEN return(Errf("VT12001",
                    "LOCK function and other expression: [%s] in same select query",
                    String(expr)))
             ELSE IF Translate(expr.Expr).err # Nil
             THEN return(Nil)
             ELSE dualColumns(columns, i + 1,
                    [exprs EXCEPT ![i] = Translate(expr.Expr).expr],
                    [cols EXCEPT ![i] = IF expr.As = "" THEN StringOfExpr(expr.Expr)
                                        ELSE expr.As],
                    lockFunctions)

\* handleDualSelects that fails where the loop gives up without an error
handleDualSelectsFailing(sel, vs) ==
    IF ~isOnlyDual(sel)
    THEN [primitive |-> Nil, err |-> Nil]
    ELSE LET columns == sel.SelectExprs
             loop == dualColumns(columns, 1, [i \in 1..Len(columns) |-> Nil],
                                 [i \in 1..Len(columns) |-> ""], <<>>)
         IN  IF loop.returned
             THEN [primitive |-> loop.primitive,
                   err |-> IF loop.err = Nil THEN Err("TranslateErr", "") ELSE loop.err]
             ELSE IF Len(loop.lockFunctions) > 0
             THEN buildLockingPrimitive(sel, vs, loop.lockFunctions)
             ELSE [primitive |-> [type |-> "Projection", Exprs |-> loop.exprs,
                                  Cols |-> loop.cols, Input |-> SingleRow],
                   err |-> Nil]

\* handleDualSelects that names every column by its expression, alias or not
handleDualSelectsNoAlias(sel, vs) ==
    IF ~isOnlyDual(sel)
    THEN [primitive |-> Nil, err |-> Nil]
    ELSE LET columns == sel.SelectExprs
             loop == dualColumns(columns, 1, [i \in 1..Len(columns) |-> Nil],
                                 [i \in 1..Len(columns) |-> ""], <<>>)
         IN  IF loop.returned
             THEN [primitive |-> loop.primitive, err |-> loop.err]
             ELSE IF Len(loop.lockFunctions) > 0
             THEN buildLockingPrimitive(sel, vs, loop.lockFunctions)
             ELSE [primitive |-> [type |-> "Projection", Exprs |-> loop.exprs,
                                  Cols |-> [i \in 1..Len(columns) |->
                                              StringOfExpr(columns[i].Expr)],
                                  Input |-> SingleRow],
                   err |-> Nil]

\* handleDualSelects
handleDualSelects(sel, vs) ==
    IF ~isOnlyDual(sel)
    THEN [primitive |-> Nil, err |-> Nil]
    ELSE LET columns == sel.SelectExprs
             loop == dualColumns(columns, 1, [i \in 1..Len(columns) |-> Nil],
                                 [i \in 1..Len(columns) |-> ""], <<>>)
         IN  IF loop.returned
             THEN [primitive |-> loop.primitive, err |-> loop.err]
             ELSE IF Len(loop.lockFunctions) > 0
             THEN buildLockingPrimitive(sel, vs, loop.lockFunctions)
             ELSE [primitive |-> [type |-> "Projection", Exprs |-> loop.exprs,
                                  Cols |-> loop.cols, Input |-> SingleRow],
                   err |-> Nil]

\* newBuildSelectPlan, with what its collaborators answer for selStmt
newBuildSelectPlan(selStmt, answers) ==
    LET fail(err) == [plan |-> Nil, tablesUsed |-> <<>>, err |-> err]
    IN  IF answers.CreatePlanningContext # "ok"
        THEN fail(Err("BuildErr", "CreatePlanningContext"))
        ELSE IF answers.CanTakeSelectUnshardedShortcut
        THEN IF answers.out = Nil
             THEN fail(Err("BuildErr", "selectUnshardedShortcut"))
             ELSE [plan |-> answers.out, tablesUsed |-> TablesUsed(selStmt), err |-> Nil]
        ELSE IF answers.NotUnshardedErr
        THEN fail(Err("NotUnshardedErr", ""))
        ELSE IF answers.out = Nil
        THEN fail(Err("BuildErr", "createSelectOperator"))
        ELSE [plan |-> answers.out, tablesUsed |-> TablesUsed(selStmt), err |-> Nil]

\* sqlparser.RewritePredicate: the statement with its predicates in
\* conjunctive normal form
RewritePredicate(statement) ==
    IF statement.Where = Nil THEN statement
    ELSE [statement EXCEPT !.Where = [Expr |-> "cnf(" \o statement.Where.Expr \o ")"]]

\* gen4PredicateRewrite, with the answers of the builder for the rewritten
\* statement
gen4PredicateRewrite(statement, answers) ==
    LET rewritten == RewritePredicate(statement)
        plan2 == newBuildSelectPlan(rewritten, answers)
    IN  IF plan2.err = Nil /\ ~shouldRetryAfterPredicateRewriting(plan2.plan)
        THEN [plan |-> plan2.plan, tablesUsed |-> plan2.tablesUsed]
        ELSE [plan |-> Nil, tablesUsed |-> <<>>]

\* buildSQLCalcFoundRowsPlan that leaves the count plan as it was built
buildSQLCalcFoundRowsPlanAsBuilt(originalQuery, sel, limitAnswers, parses, countAnswers) ==
    LET fail(err, made) == [primitive |-> Nil, tablesUsed |-> <<>>, err |-> err,
                            calls |-> made]
        limitPlan == newBuildSelectPlan(sel, limitAnswers)
        sel2 == [originalQuery EXCEPT !.SQLCalcFoundRows = FALSE,
                                      !.OrderBy = Nil, !.Limit = Nil]
        countStar == AliasedExpr(CountStar, "")
        counted == IF sel2.GroupBy = Nil /\ sel2.Having = Nil
                   THEN [sel2 EXCEPT !.SelectExprs = <<countStar>>]
                   ELSE Select(FALSE, <<countStar>>,
                               <<AliasedTableExpr(DerivedTable(sel2), "t")>>,
                               NoClauses, Nil)
        countPlan == newBuildSelectPlan(counted, countAnswers)
        limitCalls == <<PlanCall("newBuildSelectPlan", sel)>>
        parseCalls == limitCalls \o <<PlanCall("Parse2", originalQuery)>>
        countCalls == parseCalls \o <<PlanCall("newBuildSelectPlan", counted)>>
    IN  IF limitPlan.err # Nil
        THEN fail(limitPlan.err, limitCalls)
        ELSE IF ~parses
        THEN fail(Err("ParseErr", ""), parseCalls)
        ELSE IF countPlan.err # Nil
        THEN fail(countPlan.err, countCalls)
        ELSE [primitive |->
                [type |-> "SQLCalcFoundRows",
                 LimitPrimitive |-> limitPlan.plan,
                 CountPrimitive |-> countPlan.plan],
              tablesUsed |-> countPlan.tablesUsed, err |-> Nil, calls |-> countCalls]

\* buildSQLCalcFoundRowsPlan that leaves the ORDER BY in the count statement
buildSQLCalcFoundRowsPlanKeepsOrderBy(originalQuery, sel, limitAnswers, parses, countAnswers) ==
    LET fail(err, made) == [primitive |-> Nil, tablesUsed |-> <<>>, err |-> err,
                            calls |-> made]
        limitPlan == newBuildSelectPlan(sel, limitAnswers)
        sel2 == [originalQuery EXCEPT !.SQLCalcFoundRows = FALSE, !.Limit = Nil]
        countStar == AliasedExpr(CountStar, "")
        counted == IF sel2.GroupBy = Nil /\ sel2.Having = Nil
                   THEN [sel2 EXCEPT !.SelectExprs = <<countStar>>]
                   ELSE Select(FALSE, <<countStar>>,
                               <<AliasedTableExpr(DerivedTable(sel2), "t")>>,
                               NoClauses, Nil)
        countPlan == newBuildSelectPlan(counted, countAnswers)
        limitCalls == <<PlanCall("newBuildSelectPlan", sel)>>
        parseCalls == limitCalls \o <<PlanCall("Parse2", originalQuery)>>
        countCalls == parseCalls \o <<PlanCall("newBuildSelectPlan", counted)>>
    IN  IF limitPlan.err # Nil
        THEN fail(limitPlan.err, limitCalls)
        ELSE IF ~parses
        THEN fail(Err("ParseErr", ""), parseCalls)
        ELSE IF countPlan.err # Nil
        THEN fail(countPlan.err, countCalls)
        ELSE [primitive |->
                [type |-> "SQLCalcFoundRows",
                 LimitPrimitive |-> limitPlan.plan,
                 CountPrimitive |->
                    IF countPlan.plan.type = "Route"
                    THEN [countPlan.plan EXCEPT !.NoRoutesSpecialHandling = TRUE]
                    ELSE countPlan.plan],
              tablesUsed |-> countPlan.tablesUsed, err |-> Nil, calls |-> countCalls]

\* buildSQLCalcFoundRowsPlan; originalQuery is the statement the query text
\* parses to, parses tells whether Parse2 succeeds
buildSQLCalcFoundRowsPlan(originalQuery, sel, limitAnswers, parses, countAnswers) ==
    LET fail(err, made) == [primitive |-> Nil, tablesUsed |-> <<>>, err |-> err,
                            calls |-> made]
        limitPlan == newBuildSelectPlan(sel, limitAnswers)
        sel2 == [originalQuery EXCEPT !.SQLCalcFoundRows = FALSE,
                                      !.OrderBy = Nil, !.Limit = Nil]
        countStar == AliasedExpr(CountStar, "")
        counted == IF sel2.GroupBy = Nil /\ sel2.Having = Nil
                   THEN [sel2 EXCEPT !.SelectExprs = <<countStar>>]
                   ELSE Select(FALSE, <<countStar>>,
                               <<AliasedTableExpr(DerivedTable(sel2), "t")>>,
                               NoClauses, Nil)
        countPlan == newBuildSelectPlan(counted, countAnswers)
        limitCalls == <<PlanCall("newBuildSelectPlan", sel)>>
        parseCalls == limitCalls \o <<PlanCall("Parse2", originalQuery)>>
        countCalls == parseCalls \o <<PlanCall("newBuildSelectPlan", counted)>>
    IN  IF limitPlan.err # Nil
        THEN fail(limitPlan.err, limitCalls)
        ELSE IF ~parses
        THEN fail(Err("ParseErr", ""), parseCalls)
        ELSE IF countPlan.err # Nil
        THEN fail(countPlan.err, countCalls)
        ELSE [primitive |->
                [type |-> "SQLCalcFoundRows",
                 LimitPrimitive |-> limitPlan.plan,
                 CountPrimitive |->
                    IF countPlan.plan.type = "Route"
                    THEN [countPlan.plan EXCEPT !.NoRoutesSpecialHandling = TRUE]
                    ELSE countPlan.plan],
              tablesUsed |-> countPlan.tablesUsed, err |-> Nil, calls |-> countCalls]

\* gen4planSQLCalcFoundRows; analyzes tells whether semantics.Analyze succeeds
gen4planSQLCalcFoundRows(vs, sel, originalQuery, env) ==
    LET ksName == IF vs.SelectedKeyspace # Nil THEN vs.SelectedKeyspace.Name ELSE ""
        analyzeCalls == <<PlanCall("SelectedKeyspace", Nil),
                          PlanCall("Analyze", [sel |-> sel, ksName |-> ksName])>>
        built == buildSQLCalcFoundRowsPlan(originalQuery, sel, env.first,
                                           env.parses, env.second)
    IN  IF ~env.analyzes
        THEN [result |-> planError(Err("AnalyzeErr", "")), calls |-> analyzeCalls]
        ELSE IF built.err # Nil
        THEN [result |-> planError(built.err),
              calls |-> analyzeCalls \o <<PlanCall("PlannerWarning", Nil)>> \o built.calls]
        ELSE [result |-> newPlanResult(built.primitive, built.tablesUsed),
              calls |-> analyzeCalls \o <<PlanCall("PlannerWarning", Nil)>> \o built.calls]

\* the empty-set guard of gen4SelectStmtPlanner: the plan with
\* NoRoutesSpecialHandling set on a Route, or on the SendTo of a VindexLookup
withNoRoutesSpecialHandling(plan) ==
    IF plan.type = "Route"
    THEN [plan EXCEPT !.NoRoutesSpecialHandling = TRUE]
    ELSE IF plan.type = "VindexLookup"
    THEN [plan EXCEPT !.SendTo.NoRoutesSpecialHandling = TRUE]
    ELSE plan

\* used that forgets the keyspace
usedWithoutKeyspace(vs) == "dual"

\* gen4SelectStmtPlanner, on the dual shortcut: the table it records as used
used(vs) ==
    IF vs.SelectedKeyspace # Nil
    THEN vs.SelectedKeyspace.Name \o ".dual"
    ELSE "dual"

\* gen4SelectStmtPlanner: what it returns, the statement as it leaves it, and
\* the calls it makes, with the answers env of its collaborators
gen4SelectStmtPlanner(originalQuery, statement, vs, env) ==
    LET isSel == statement.type = "Select"
        dual == IF isSel THEN handleDualSelects(statement, vs)
                ELSE [primitive |-> Nil, err |-> Nil]
        sel == IF isSel THEN [statement EXCEPT !.SQLCalcFoundRows = FALSE]
               ELSE statement
        first == newBuildSelectPlan(sel, env.first)
        firstCalls == <<PlanCall("newBuildSelectPlan", sel)>>
        second == gen4PredicateRewrite(sel, env.second)
        secondCalls == firstCalls \o
                         <<PlanCall("RewritePredicate", sel),
                           PlanCall("newBuildSelectPlan", RewritePredicate(sel))>>
        retried == shouldRetryAfterPredicateRewriting(first.plan)
        lastCalls == IF retried THEN secondCalls ELSE firstCalls
    IN  IF isSel /\ dual.err # Nil
        THEN [result |-> planError(dual.err), stmt |-> statement, calls |-> <<>>]
        ELSE IF isSel /\ dual.primitive # Nil
        THEN [result |-> newPlanResult(dual.primitive, <<used(vs)>>),
              stmt |-> statement,
              calls |-> <<PlanCall("SelectedKeyspace", Nil)>>]
        ELSE IF isSel /\ statement.SQLCalcFoundRows /\ statement.Limit # Nil
        THEN LET split == gen4planSQLCalcFoundRows(vs, statement, originalQuery, env)
             IN  [result |-> split.result, stmt |-> statement, calls |-> split.calls]
        ELSE IF first.err # Nil
        THEN [result |-> planError(first.err), stmt |-> sel, calls |-> firstCalls]
        ELSE IF retried /\ second.plan # Nil
        THEN [result |-> newPlanResult(second.plan, second.tablesUsed),
              stmt |-> sel, calls |-> secondCalls]
        ELSE IF ~isSel
        THEN [result |-> newPlanResult(first.plan, first.tablesUsed),
              stmt |-> sel, calls |-> lastCalls]
        ELSE IF isOnlyDual(sel) \/ (sel.GroupBy = Nil /\ AllAggregation(sel.SelectExprs))
        THEN [result |-> newPlanResult(withNoRoutesSpecialHandling(first.plan),
                                       first.tablesUsed),
              stmt |-> sel, calls |-> lastCalls]
        ELSE [result |-> newPlanResult(first.plan, first.tablesUsed),
              stmt |-> sel, calls |-> lastCalls]

\* the answers the planner asks its collaborators for, when it plans
\* statement: none on the dual shortcut; those of the analyzer, the builder
\* for the limit statement, the parser and the builder for the count
\* statement in the SQL_CALC_FOUND_ROWS split; else those of the builder for
\* the statement and, after a plan that asks for the retry, for the rewritten
\* statement, which are the same when rewriting changes nothing
Unasked == Answers("unasked", FALSE, FALSE, Nil)
Succeeds(answers) ==
    /\ answers.CreatePlanningContext = "ok"
    /\ answers.out # Nil
    /\ answers.CanTakeSelectUnshardedShortcut \/ ~answers.NotUnshardedErr
Environments(statement, vs) ==
    LET isSel == statement.type = "Select"
        dual == IF isSel THEN handleDualSelects(statement, vs)
                ELSE [primitive |-> Nil, err |-> Nil]
    IN  IF dual.err # Nil \/ dual.primitive # Nil
        THEN {[analyzes |-> TRUE, first |-> Unasked, parses |-> TRUE, second |-> Unasked]}
        ELSE IF isSel /\ statement.SQLCalcFoundRows /\ statement.Limit # Nil
        THEN {[analyzes |-> FALSE, first |-> Unasked, parses |-> TRUE, second |-> Unasked]}
               \cup {[analyzes |-> TRUE, first |-> a, parses |-> TRUE, second |-> Unasked] :
                       a \in {b \in BuildAnswers : ~Succeeds(b)}}
               \cup {[analyzes |-> TRUE, first |-> a, parses |-> FALSE, second |-> Unasked] :
                       a \in {b \in BuildAnswers : Succeeds(b)}}
               \cup {[analyzes |-> TRUE, first |-> a, parses |-> TRUE, second |-> c] :
                       a \in {b \in BuildAnswers : Succeeds(b)}, c \in BuildAnswers}
        ELSE UNION {
               {[analyzes |-> TRUE, first |-> a, parses |-> TRUE, second |-> c] :
                  c \in IF Succeeds(a) /\ shouldRetryAfterPredicateRewriting(a.out)
                        THEN (IF RewritePredicate(statement) = statement
                              THEN {a} ELSE BuildAnswers)
                        ELSE {Unasked}} :
               a \in BuildAnswers}

\* Plan: gen4SelectStmtPlanner plans the statement
Plan(env) ==
    /\ planResult = Nil
    /\ LET planned == gen4SelectStmtPlanner(query, stmt, vschema, env)
       IN  /\ planResult' = planned.result
           /\ stmt' = planned.stmt
           /\ planCalls' = planned.calls
    /\ UNCHANGED <<query, vschema, vindex, peer, scState, op, res, calls>>

\* a query arrives at the planner: the parsed statement and the vschema
InitPlan ==
    /\ query \in Statements
    /\ stmt = query
    /\ vschema \in VSchemas
    /\ planResult = Nil
    /\ planCalls = <<>>
    /\ ids = <<>> /\ destinations = Nil /\ ksids = Nil /\ reverseIds = Nil
    /\ NewStatefulConnection
    /\ peer = NewPeer
    /\ hasPool /\ enforceTimeout /\ ~SkipUserMetrics

NextPlan == \E env \in Environments(stmt, vschema) : Plan(env)

\* the planner plans one statement; the connection is left alone
SpecPlan == InitPlan /\ [][NextPlan]_vars

-----------------------------------------------------------------------------
\* Properties of the SELECT planner

\* Plan returned a plan, and no error
Planned == planResult # Nil /\ planResult.err = Nil

\* the planner called name
PlanCalled(name) == \E i \in 1..Len(planCalls) : planCalls[i].call = name

\* the query is a simple Select with SQL_CALC_FOUND_ROWS and a LIMIT
FoundRowsQuery ==
    query.type = "Select" /\ query.SQLCalcFoundRows /\ query.Limit # Nil

\* C16, as claimed: every simple Select with SQLCalcFoundRows and a non-nil
\* Limit that Plan plans successfully gets SQLCalcFoundRows{LimitPrimitive,
\* CountPrimitive}, with NoRoutesSpecialHandling set on a CountPrimitive that
\* is a Route.
C16_AsClaimed ==
    (Planned /\ FoundRowsQuery)
       => /\ planResult.primitive.type = "SQLCalcFoundRows"
          /\ planResult.primitive.CountPrimitive.type = "Route"
                => planResult.primitive.CountPrimitive.NoRoutesSpecialHandling

\* C16, amended: a simple Select with SQLCalcFoundRows and a non-nil Limit
\* that Plan plans successfully gets SQLCalcFoundRows{LimitPrimitive,
\* CountPrimitive}, with NoRoutesSpecialHandling set on a CountPrimitive that
\* is a Route, unless the dual shortcut plans it: then it gets the Projection
\* or the Lock of the shortcut, and the builder is not called.
C16_FoundRowsShape ==
    (Planned /\ FoundRowsQuery)
       => IF PlanCalled("newBuildSelectPlan")
          THEN /\ planResult.primitive.type = "SQLCalcFoundRows"
               /\ planResult.primitive.CountPrimitive.type = "Route"
                     => planResult.primitive.CountPrimitive.NoRoutesSpecialHandling
          ELSE /\ planResult.primitive.type \in {"Projection", "Lock"}
               /\ query.Where = Nil /\ query.GroupBy = Nil /\ query.Having = Nil
               /\ query.OrderBy = Nil /\ query.From = <<Dual>>

\* SELECT SQL_CALC_FOUND_ROWS count(*) FROM t GROUP BY a LIMIT 1 got a
\* SQLCalcFoundRows whose count half is a Route
C16_Witness ==
    /\ Planned /\ FoundRowsQuery /\ query.GroupBy # Nil
    /\ planResult.primitive.type = "SQLCalcFoundRows"
    /\ planResult.primitive.CountPrimitive.type = "Route"
    /\ planResult.primitive.CountPrimitive.NoRoutesSpecialHandling
    /\ planResult.primitive.LimitPrimitive.type = "Route"
    /\ ~planResult.primitive.LimitPrimitive.NoRoutesSpecialHandling

\* C17: a simple Select that Plan plans successfully outside the dual
\* shortcut, and that is exclusively from dual or has no GROUP BY and only
\* aggregations in its select list, gets a primitive with
\* NoRoutesSpecialHandling set when that is a Route, and set on SendTo when
\* it is a VindexLookup, whether the plan returned is the first one built or
\* the one rebuilt after the rewriting of the predicates.
C17_NoRoutesGuard ==
    ( /\ Planned /\ query.type = "Select"
      /\ PlanCalled("newBuildSelectPlan")
      /\ \/ isOnlyDual(query)
         \/ query.GroupBy = Nil /\ AllAggregation(query.SelectExprs) )
       => /\ planResult.primitive.type = "Route"
               => planResult.primitive.NoRoutesSpecialHandling
          /\ planResult.primitive.type = "VindexLookup"
               => planResult.primitive.SendTo.NoRoutesSpecialHandling

\* Plan returned the primitive of the dual shortcut
ShortcutPlanned ==
    /\ Planned
    /\ planCalls = <<PlanCall("SelectedKeyspace", Nil)>>
    /\ planResult.primitive.type \in {"Projection", "Lock"}

\* Plan has planned a simple Select without WHERE, GROUP BY, HAVING and
\* ORDER BY, from the one unqualified table dual, with a LIMIT that has a
\* rowcount, or without LIMIT
DualQuery ==
    /\ planResult # Nil
    /\ query.type = "Select"
    /\ query.Where = Nil /\ query.GroupBy = Nil /\ query.Having = Nil
    /\ query.OrderBy = Nil
    /\ query.From = <<Dual>>
    /\ query.Limit # Nil => query.Limit.Rowcount # Nil

\* C18, as claimed: for such a select isOnlyDual holds without LIMIT and for a
\* LIMIT without offset whose rowcount is the literal "0"; it fails for a
\* LIMIT with an offset, for a rowcount that is another literal, and for a
\* rowcount that is not a literal.  So SELECT 1 from it is planned by the
\* dual shortcut in the first two cases only.
C18_AsClaimed ==
    DualQuery =>
       LET qualifies == \/ query.Limit = Nil
                        \/ /\ query.Limit.Offset = Nil
                           /\ query.Limit.Rowcount.type = "Literal"
                           /\ query.Limit.Rowcount.Val = "0"
       IN  /\ isOnlyDual(query) <=> qualifies
           /\ query.SelectExprs = <<AliasedExpr(One, "")>>
                 => (ShortcutPlanned <=> qualifies)

\* C18, amended: for such a select isOnlyDual holds without LIMIT and for a
\* LIMIT without offset whose rowcount is a literal other than "0"; it fails
\* for a LIMIT with an offset, for the rowcount "0", and for a rowcount that
\* is not a literal.  So SELECT 1 from it is planned by the dual shortcut in
\* the first two cases only.
C18_LimitDecision ==
    DualQuery =>
       LET qualifies == \/ query.Limit = Nil
                        \/ /\ query.Limit.Offset = Nil
                           /\ query.Limit.Rowcount.type = "Literal"
                           /\ query.Limit.Rowcount.Val # "0"
       IN  /\ isOnlyDual(query) <=> qualifies
           /\ query.SelectExprs = <<AliasedExpr(One, "")>>
                 => (ShortcutPlanned <=> qualifies)

\* SELECT 1 FROM dual LIMIT 1 was planned by the dual shortcut
C18_Witness ==
    /\ Planned /\ DualQuery
    /\ query.Limit = Limit(Nil, Literal("1"))
    /\ planResult.primitive.type = "Projection"
    /\ ~PlanCalled("newBuildSelectPlan")

\* the select list holds a locking function, and an expression that is none
IsLockColumn(column) == column.type = "AliasedExpr" /\ column.Expr.type = "LockingFunc"
MixesLockFunctions(columns) ==
    /\ \E i \in 1..Len(columns) : IsLockColumn(columns[i])
    /\ \E i \in 1..Len(columns) : ~IsLockColumn(columns[i])

\* C19: a dual-only select whose select list mixes a locking function with
\* another expression fails with VT12001, "LOCK function and other expression
\* ... in same select query", in whatever order the columns come, and Plan
\* returns no primitive for it.
C19_LockMixFails ==
    (DualQuery /\ query.Limit = Nil /\ MixesLockFunctions(query.SelectExprs))
       => /\ planResult.primitive = Nil
          /\ planResult.err # Nil
          /\ planResult.err.code = "VT12001"
          /\ planResult.err.msg =
               "LOCK function and other expression: [%s] in same select query"

\* C20: when the dual shortcut yields a primitive, Plan returns it at once,
\* before the SQL_CALC_FOUND_ROWS split, the build, the retry and the
\* empty-set guard: it calls neither the analyzer nor the parser nor the
\* builder nor the rewriter, and leaves the statement as it is.  TablesUsed
\* is exactly <<"<ks>.dual">> when SelectedKeyspace succeeds and <<"dual">>
\* when it fails, and planning does not fail for that.
C20_DualShortcutReturns ==
    ( /\ planResult # Nil /\ query.type = "Select"
      /\ handleDualSelects(query, vschema).primitive # Nil )
       => /\ planResult.err = Nil
          /\ planResult.primitive = handleDualSelects(query, vschema).primitive
          /\ planResult.primitive.type \in {"Projection", "Lock"}
          /\ planResult.tables =
               IF vschema.SelectedKeyspace # Nil
               THEN <<vschema.SelectedKeyspace.Name \o ".dual">>
               ELSE <<"dual">>
          /\ \A name \in {"Analyze", "Parse2", "newBuildSelectPlan", "RewritePredicate"} :
               ~PlanCalled(name)
          /\ stmt = query

\* SELECT SQL_CALC_FOUND_ROWS get_lock('x', 0) FROM dual LIMIT 1 got the Lock
\* of the dual shortcut, with "dual" as the table used, from a vschema whose
\* SelectedKeyspace fails
C20_Witness ==
    /\ Planned /\ FoundRowsQuery
    /\ vschema.SelectedKeyspace = Nil
    /\ planResult.primitive.type = "Lock"
    /\ planResult.tables = <<"dual">>
    /\ stmt.SQLCalcFoundRows

\* the column is an aliased expression that is no locking function and that
\* the evalengine translates
IsPlainColumn(column) ==
    /\ column.type = "AliasedExpr"
    /\ column.Expr.type # "LockingFunc"
    /\ Translatable(column.Expr)

\* C21: for a dual-only select whose columns are all aliased, translatable,
\* non-locking expressions, Plan returns Projection{Exprs, Cols, Input:
\* SingleRow} with one Exprs entry and one Cols entry per select column, in
\* order; Cols[i] is the explicit alias if there is one, and else the
\* pretty-printed source expression.
C21_DualProjection ==
    ( /\ planResult # Nil /\ query.type = "Select" /\ isOnlyDual(query)
      /\ \A i \in 1..Len(query.SelectExprs) : IsPlainColumn(query.SelectExprs[i]) )
       => /\ planResult.err = Nil
          /\ planResult.primitive.type = "Projection"
          /\ planResult.primitive.Input = [type |-> "SingleRow"]
          /\ DOMAIN planResult.primitive.Exprs = 1..Len(query.SelectExprs)
          /\ DOMAIN planResult.primitive.Cols = 1..Len(query.SelectExprs)
          /\ \A i \in 1..Len(query.SelectExprs) :
               /\ planResult.primitive.Exprs[i] = [eval |-> query.SelectExprs[i].Expr]
               /\ planResult.primitive.Cols[i] =
                    IF query.SelectExprs[i].As # ""
                    THEN query.SelectExprs[i].As
                    ELSE StringOfExpr(query.SelectExprs[i].Expr)

\* SELECT 1 AS a, 1 FROM dual LIMIT 1 got the Projection of 1 and 1 named a
\* and 1 on a single row
C21_Witness ==
    /\ Planned /\ query.type = "Select"
    /\ query.SelectExprs = <<AliasedExpr(One, "a"), AliasedExpr(One, "")>>
    /\ query.Limit = Limit(Nil, One)
    /\ planResult.primitive.type = "Projection"
    /\ planResult.primitive.Cols = <<"a", "1">>
    /\ planResult.primitive.Exprs = <<[eval |-> One], [eval |-> One]>>

\* C23: Plan does not mutate the SelectStatement it receives: after Plan
\* returns, with a plan or with an error, every field of the caller's
\* statement, its SQLCalcFoundRows flag included, has the value it had before
\* the call.
C23_StatementImmutable ==
    planResult # Nil => stmt = query

\* the plan is a Route with Opcode DBA and neither SysTableTableName nor
\* SysTableTableSchema
IsBareDBARoute(plan) ==
    /\ plan.type = "Route" /\ plan.Opcode = "DBA"
    /\ plan.SysTableTableName = <<>> /\ plan.SysTableTableSchema = <<>>

\* the number of calls of name in the calls cs of the planner
PlanCallCount(cs, name) == Cardinality({i \in 1..Len(cs) : cs[i].call = name})

CountStatement ==
    LET stripped == [query EXCEPT !.SQLCalcFoundRows = FALSE,
                                  !.OrderBy = Nil, !.Limit = Nil]
    IN  IF query.GroupBy = Nil /\ query.Having = Nil
        THEN [stripped EXCEPT !.SelectExprs = <<AliasedExpr(CountStar, "")>>]
        ELSE [type |-> "Select", SQLCalcFoundRows |-> FALSE,
              SelectExprs |-> <<AliasedExpr(CountStar, "")>>,
              From |-> <<AliasedTableExpr(DerivedTable(stripped), "t")>>,
              Where |-> Nil, GroupBy |-> Nil, Having |-> Nil, OrderBy |-> Nil,
              Limit |-> Nil]

\* C25: in the SQL_CALC_FOUND_ROWS split the count statement is built from a
\* fresh re-parse of the original query with SQLCalcFoundRows, OrderBy and
\* Limit removed: if it has neither GROUP BY nor HAVING its select list is
\* replaced by a single COUNT(*), otherwise it is wrapped as a derived table
\* aliased t under SELECT COUNT(*).  The limit plan is built before the
\* re-parse, an error in either half fails the whole plan, and the returned
\* tables-used is that of the count plan only.
C25_CountStatement ==
    [][ \A env \in Environments(stmt, vschema) :
          (Plan(env) /\ PlanCallCount(planCalls', "Analyze") > 0) =>
             LET cs == planCalls'
                 failed == planResult'.primitive = Nil /\ planResult'.err # Nil
             IN  IF ~env.analyzes
                 THEN failed /\ PlanCallCount(cs, "newBuildSelectPlan") = 0
                 ELSE /\ Len(cs) >= 4
                      /\ cs[4] = PlanCall("newBuildSelectPlan", query)
                      /\ IF ~Succeeds(env.first)
                         THEN failed /\ Len(cs) = 4
                         ELSE /\ Len(cs) >= 5
                              /\ cs[5] = PlanCall("Parse2", query)
                              /\ IF ~env.parses
                                 THEN failed /\ Len(cs) = 5
                                 ELSE /\ Len(cs) = 6
                                      /\ cs[6] = PlanCall("newBuildSelectPlan", CountStatement)
                                      /\ IF ~Succeeds(env.second)
                                         THEN failed
                                         ELSE /\ planResult'.err = Nil
                                              /\ planResult'.primitive.type = "SQLCalcFoundRows"
                                              /\ planResult'.primitive.LimitPrimitive = env.first.out
                                              /\ planResult'.primitive.CountPrimitive =
                                                    IF env.second.out.type = "Route"
                                                    THEN [env.second.out EXCEPT
                                                            !.NoRoutesSpecialHandling = TRUE]
                                                    ELSE env.second.out
                                              /\ planResult'.tables = TablesUsed(CountStatement) ]_vars

\* SELECT SQL_CALC_FOUND_ROWS 1 FROM dual ORDER BY a LIMIT 1 got a
\* SQLCalcFoundRows whose count half was built for SELECT count(*) FROM dual
C25_Witness ==
    /\ Planned /\ FoundRowsQuery
    /\ query.OrderBy # Nil /\ query.From = <<Dual>>
    /\ query.SelectExprs = <<AliasedExpr(One, "")>>
    /\ planResult.primitive.type = "SQLCalcFoundRows"
    /\ Len(planCalls) = 6
    /\ planCalls[4] = PlanCall("newBuildSelectPlan", query)
    /\ planCalls[5].call = "Parse2"
    /\ planCalls[6] =
          PlanCall("newBuildSelectPlan",
                   Select(FALSE, <<AliasedExpr(CountStar, "")>>, <<Dual>>, NoClauses, Nil))

\* the column is a locking function whose name argument, if it has one, the
\* evalengine translates
IsGoodLockColumn(column) ==
    /\ IsLockColumn(column)
    /\ column.Expr.Name # Nil => Translatable(column.Expr.Name)

\* the loop of the dual shortcut gets to column i: every column before it is
\* a locking function with a good name, or a translatable expression that no
\* locking function precedes
LoopReaches(columns, i) ==
    \A j \in 1..(i - 1) :
        \/ IsGoodLockColumn(columns[j])
        \/ /\ IsPlainColumn(columns[j])
           /\ \A k \in 1..(j - 1) : ~IsLockColumn(columns[k])

\* the loop gets to column i, which is no aliased expression, or is an
\* expression that the evalengine does not translate, that is no locking
\* function and that no locking function precedes
GivesUpAt(columns, i) ==
    /\ LoopReaches(columns, i)
    /\ \/ columns[i].type # "AliasedExpr"
       \/ /\ ~IsLockColumn(columns[i])
          /\ ~Translatable(columns[i].Expr)
          /\ \A k \in 1..(i - 1) : ~IsLockColumn(columns[k])

\* Plan went on to the general planner or to the SQL_CALC_FOUND_ROWS split
GeneralPlannerCalled == PlanCalled("newBuildSelectPlan") \/ PlanCalled("Analyze")

\* C28: in the dual shortcut, the failure to translate a non-locking
\* expression that no locking function precedes never produces an error: the
\* shortcut returns (nil, nil) and Plan continues with the general planner;
\* the same holds for a column that is not an aliased expression.  Only
\* VT12001, a failure to translate the name argument of a locking function,
\* and a failure of FirstSortedKeyspace are returned as errors from the dual
\* path.
C28_DualErrors ==
    (planResult # Nil /\ query.type = "Select" /\ isOnlyDual(query)) =>
       LET columns == query.SelectExprs
       IN  /\ (\E i \in 1..Len(columns) : GivesUpAt(columns, i))
                => /\ GeneralPlannerCalled
                   /\ planResult.err # Nil
                         => planResult.err.code \notin {"VT12001", "TranslateErr", "VT05003"}
           /\ (planResult.err # Nil /\ ~GeneralPlannerCalled)
                => /\ planCalls = <<>>
                   /\ planResult.primitive = Nil
                   /\ \/ /\ planResult.err.code = "VT12001"
                         /\ MixesLockFunctions(columns)
                      \/ /\ planResult.err.code = "TranslateErr"
                         /\ \E i \in 1..Len(columns) :
                               /\ IsLockColumn(columns[i])
                               /\ ~IsGoodLockColumn(columns[i])
                      \/ /\ planResult.err.code = "VT05003"
                         /\ vschema.FirstSortedKeyspace = Nil
                         /\ \E i \in 1..Len(columns) : IsGoodLockColumn(columns[i])

\* SELECT count(*), get_lock('x', 0) FROM dual was planned by the general
\* planner, as a Route
C28_Witness ==
    /\ Planned /\ DualQuery /\ query.Limit = Nil
    /\ query.SelectExprs = <<AliasedExpr(CountStar, ""), AliasedExpr(GetLock, "")>>
    /\ planCalls = <<PlanCall("newBuildSelectPlan", query)>>
    /\ planResult.primitive.type = "Route"

-----------------------------------------------------------------------------
\* The Binary vindex (go/vt/vtgate/vindexes/binary.go)

MaxIds == 2         \* Map and ReverseMap are called with at most MaxIds rows

\* []byte: Nil, or a slice of bytes
Bytes(slice) == [slice |-> slice]

\* the byte strings the values and the keyspace ids hold: none, 00, ff 00
ByteStrings == {Bytes(<<>>), Bytes(<<0>>), Bytes(<<255, 0>>)}

\* sqltypes.Value: a type and raw bytes; NULL holds no bytes
Value(typ, val) == [typ |-> typ, val |-> val]
NULL == Value("Null", Nil)

\* sqltypes.MakeTrusted
MakeTrusted(typ, val) == IF typ = "Null" THEN NULL ELSE Value(typ, val)

\* the values mapped here: NULL, the VarBinary of every byte string, the
\* Int64 1, an Expression, and the hexadecimal literals x'00' and x'0'
Values ==
    {NULL} \cup {Value("VarBinary", b) : b \in ByteStrings}
      \cup {Value("Int64", Bytes(<<49>>)), Value("Expression", Bytes(<<49>>)),
            Value("HexVal", Bytes(<<120, 39, 48, 48, 39>>)),
            Value("HexVal", Bytes(<<120, 39, 48, 39>>))}

\* the lists of values Map is called with, and the lists of keyspace ids
\* ReverseMap is called with
IdLists == UNION {[1..n -> Values] : n \in 0..MaxIds}
KsidLists == UNION {[1..n -> ByteStrings \cup {Nil}] : n \in 0..MaxIds}

\* the value of a hexadecimal digit, -1 for another byte
hexDigit(b) ==
    IF b \in 48..57 THEN b - 48
    ELSE IF b \in 97..102 THEN b - 87
    ELSE IF b \in 65..70 THEN b - 55
    ELSE -1

\* hex.DecodeString: two digits make one byte
hexDecodeString(digits) ==
    IF Len(digits) % 2 # 0 \/ \E i \in 1..Len(digits) : hexDigit(digits[i]) < 0
    THEN [bytes |-> Nil, err |-> Err("INVALID_ARGUMENT", "invalid hex")]
    ELSE [bytes |-> Bytes([i \in 1..(Len(digits) \div 2) |->
                        16 * hexDigit(digits[2 * i - 1]) + hexDigit(digits[2 * i])]),
          err |-> Nil]

\* sqltypes.Value.ToBytes: the raw bytes, the bytes a hexadecimal literal
\* x'..' stands for, and an error for an expression
ToBytes(v) ==
    IF v.typ = "Expression"
    THEN [bytes |-> Nil,
          err |-> Err("INVALID_ARGUMENT", "expression cannot be converted to bytes")]
    ELSE IF v.typ = "HexVal"
    THEN LET raw == v.val.slice
         IN  IF Len(raw) < 3 \/ raw[1] \notin {120, 88} \/ raw[2] # 39
                \/ raw[Len(raw)] # 39
             THEN [bytes |-> Nil, err |-> Err("INVALID_ARGUMENT", "invalid hex value")]
             ELSE hexDecodeString(SubSeq(raw, 3, Len(raw) - 1))
    ELSE [bytes |-> v.val, err |-> Nil]

\* key.DestinationKeyspaceID, a []byte under another name, and the keyspace
\* ids of a list of them
DestinationKeyspaceID(idBytes) == [type |-> "DestinationKeyspaceID", ksid |-> idBytes]
KeyspaceIDs(dests) == [i \in DOMAIN dests |-> dests[i].ksid]

\* Binary.Hash
Hash(id) == ToBytes(id)

\* Binary.Map: the destinations of the values before the first one that does
\* not hash, and its error
Map(values) ==
    LET failed == {i \in DOMAIN values : Hash(values[i]).err # Nil}
        n == IF failed = {} THEN Len(values)
             ELSE (CHOOSE i \in failed : \A j \in failed : i <= j) - 1
    IN  [out |-> [i \in 1..n |-> DestinationKeyspaceID(Hash(values[i]).bytes)],
         err |-> IF failed = {} THEN Nil ELSE Hash(values[n + 1]).err]

\* Binary.ReverseMap that does not look for nil keyspace ids
ReverseMapOfAnything(keyspaceIDs) ==
    [out |-> [rownum \in DOMAIN keyspaceIDs |->
                MakeTrusted("VarBinary", keyspaceIDs[rownum])],
     err |-> Nil]

\* Binary.ReverseMap
ReverseMap(keyspaceIDs) ==
    IF \E rownum \in DOMAIN keyspaceIDs : keyspaceIDs[rownum] = Nil
    THEN [out |-> Nil, err |-> Err("UNKNOWN", "Binary.ReverseMap: keyspaceId is nil")]
    ELSE [out |-> [rownum \in DOMAIN keyspaceIDs |->
                     MakeTrusted("VarBinary", keyspaceIDs[rownum])],
          err |-> Nil]

\* a caller maps ids
BinaryMap ==
    /\ destinations = Nil
    /\ destinations' = Map(ids)
    /\ UNCHANGED <<ids, ksids, reverseIds, planner, peer, scState, op, res, calls>>

\* a caller reverse-maps the keyspace ids k
BinaryReverseMap(k) ==
    /\ reverseIds = Nil
    /\ ksids' = k
    /\ reverseIds' = ReverseMap(k)
    /\ UNCHANGED <<ids, destinations, planner, peer, scState, op, res, calls>>

\* a caller reverse-maps the keyspace ids that Map returned
BinaryReverseMapOfMap ==
    /\ destinations # Nil /\ destinations.err = Nil
    /\ reverseIds = Nil
    /\ ksids' = KeyspaceIDs(destinations.out)
    /\ reverseIds' = ReverseMap(KeyspaceIDs(destinations.out))
    /\ UNCHANGED <<ids, destinations, planner, peer, scState, op, res, calls>>

\* a list of values arrives at the vindex
InitVindex ==
    /\ ids \in IdLists
    /\ destinations = Nil
    /\ ksids = Nil
    /\ reverseIds = Nil
    /\ query = Nil /\ stmt = Nil /\ vschema = Nil
    /\ planResult = Nil /\ planCalls = <<>>
    /\ NewStatefulConnection
    /\ peer = NewPeer
    /\ hasPool /\ enforceTimeout /\ ~SkipUserMetrics

NextVindex ==
    \/ BinaryMap
    \/ \E k \in KsidLists : BinaryReverseMap(k)
    \/ BinaryReverseMapOfMap

\* the vindex maps one list of values and reverse-maps one list of keyspace
\* ids; the connection and the planner are left alone
SpecVindex == InitVindex /\ [][NextVindex]_vars

-----------------------------------------------------------------------------
\* Properties of the Binary vindex

\* C22: for the Binary vindex, ReverseMap(Map(v)) returns v (same bytes, at
\* the same position, one output per input) for every list v of values whose
\* bytes are non-nil; and ReverseMap fails with an error and returns no
\* values when any keyspace id in its input is nil.
C22_BinaryRoundTrip ==
    reverseIds # Nil =>
       /\ ( /\ destinations # Nil
            /\ ksids = KeyspaceIDs(destinations.out)
            /\ \A i \in DOMAIN ids : ToBytes(ids[i]).bytes # Nil )
             => /\ destinations.err = Nil
                /\ reverseIds.err = Nil
                /\ DOMAIN reverseIds.out = DOMAIN ids
                /\ \A i \in DOMAIN ids :
                     /\ reverseIds.out[i].typ = "VarBinary"
                     /\ reverseIds.out[i].val = ToBytes(ids[i]).bytes
       /\ (\E i \in DOMAIN ksids : ksids[i] = Nil)
             => reverseIds.err # Nil /\ reverseIds.out = Nil

\* x'00' and the VarBinary ff 00 were mapped, and reverse-mapped to the
\* VarBinary 00 and the VarBinary ff 00
C22_Witness ==
    /\ ids = <<Value("HexVal", Bytes(<<120, 39, 48, 48, 39>>)),
               Value("VarBinary", Bytes(<<255, 0>>))>>
    /\ destinations # Nil /\ destinations.err = Nil
    /\ reverseIds # Nil /\ reverseIds.err = Nil
    /\ ksids = <<Bytes(<<0>>), Bytes(<<255, 0>>)>>
    /\ reverseIds.out = <<Value("VarBinary", Bytes(<<0>>)),
                          Value("VarBinary", Bytes(<<255, 0>>))>>

====
